---- MODULE Spec2Model ----
(***************************************************************************)
(* AppLockerCloud: rule store (services/storage), XML codec                *)
(* (services/xmlGenerator), rule validator / policy evaluator              *)
(* (services/ruleValidator) and the client-side API (services/api).        *)
(*                                                                         *)
(* JavaScript strings that the code inspects character by character        *)
(* (paths, publisher names, hashes) are sequences of one-character         *)
(* strings; an environment-variable placeholder such as %WINDIR% is one    *)
(* element of such a sequence.  Strings that are only compared or tested   *)
(* for truthiness are TLA+ strings.                                        *)
(***************************************************************************)
EXTENDS Integers, Sequences, FiniteSets, TLC

VARIABLES
    pc,                                    \* position of the harness in use
    path1, path2, overlap12, overlap21,    \* pathsOverlap harness
    testRules, testCase, results, matches, \* testPolicy and ruleMatches harness
    xmlRules, xmlDoc, parsed,              \* generatePolicy / parseXML harness
    ruleStore, modeStore, versionStore,    \* localStorage: rules, modes, version
    nextId,                                \* the ids generateId has drawn, plus one
    ops,                                   \* the operations called, the clock
    last, prev,                            \* the last call and the one before it
    dupRule1, dupRule2, isDup,             \* isDuplicateRule harness
    conflictRules, conflicts,              \* detectConflicts harness
    pubCondition, pubTest, pubMatch        \* publisherConditionMatches harness

pathVars == <<path1, path2, overlap12, overlap21>>

evalVars == <<testRules, testCase, results, matches>>

xmlVars == <<xmlRules, xmlDoc, parsed>>

storeVars == <<ruleStore, modeStore, versionStore, nextId, ops, last, prev>>

dupVars == <<dupRule1, dupRule2, isDup>>

conflictVars == <<conflictRules, conflicts>>

pubVars == <<pubCondition, pubTest, pubMatch>>

vars == <<pc, path1, path2, overlap12, overlap21,
          testRules, testCase, results, matches,
          xmlRules, xmlDoc, parsed,
          ruleStore, modeStore, versionStore, nextId, ops, last, prev,
          dupRule1, dupRule2, isDup, conflictRules, conflicts,
          pubCondition, pubTest, pubMatch>>

(***************************************************************************)
(* JavaScript values                                                       *)
(***************************************************************************)
\* null / undefined of a character-sequence string, and a key of that kind
\* that the object does not have
NullSeq == <<"<null>">>
AbsentSeq == <<"<absent>">>

\* null of a plain string, and a key that the object does not have
Null == "<null>"
Absent == "<absent>"

\* !s for a character-sequence string
FalsySeq(s) == s = NullSeq \/ s = AbsentSeq \/ s = <<>>

\* !s for a plain string
Falsy(s) == s = Null \/ s = Absent \/ s = ""

UpperCase == <<"A","B","C","D","E","F","G","H","I","J","K","L","M",
               "N","O","P","Q","R","S","T","U","V","W","X","Y","Z">>

LowerCase == <<"a","b","c","d","e","f","g","h","i","j","k","l","m",
               "n","o","p","q","r","s","t","u","v","w","x","y","z">>

toLowerCaseChar(c) ==
    IF \E i \in 1..Len(UpperCase) : UpperCase[i] = c
    THEN LowerCase[CHOOSE i \in 1..Len(UpperCase) : UpperCase[i] = c]
    ELSE c

toUpperCaseChar(c) ==
    IF \E i \in 1..Len(LowerCase) : LowerCase[i] = c
    THEN UpperCase[CHOOSE i \in 1..Len(LowerCase) : LowerCase[i] = c]
    ELSE c

toLowerCase(s) == [i \in 1..Len(s) |-> toLowerCaseChar(s[i])]

toUpperCase(s) == [i \in 1..Len(s) |-> toUpperCaseChar(s[i])]

IsSpace(c) == c = " "

RECURSIVE trimStart(_)
trimStart(s) == IF s # <<>> /\ IsSpace(Head(s)) THEN trimStart(Tail(s)) ELSE s

RECURSIVE trimEnd(_)
trimEnd(s) ==
    IF s # <<>> /\ IsSpace(s[Len(s)]) THEN trimEnd(SubSeq(s, 1, Len(s) - 1)) ELSE s

trim(s) == trimEnd(trimStart(s))

startsWith(s, prefix) ==
    Len(prefix) <= Len(s) /\ SubSeq(s, 1, Len(prefix)) = prefix

endsWith(s, suffix) ==
    Len(suffix) <= Len(s) /\ SubSeq(s, Len(s) - Len(suffix) + 1, Len(s)) = suffix

\* s.includes(t)
includes(s, t) ==
    \E i \in 0..(Len(s) - Len(t)) : SubSeq(s, i + 1, i + Len(t)) = t

RECURSIVE Flatten(_)
Flatten(ss) == IF ss = <<>> THEN <<>> ELSE Head(ss) \o Flatten(Tail(ss))

\* All sequences over alphabet of length at most n
RECURSIVE SeqsUpTo(_, _)
SeqsUpTo(alphabet, n) ==
    IF n = 0 THEN {<<>>}
    ELSE LET shorter == SeqsUpTo(alphabet, n - 1)
         IN  shorter \cup {Append(s, c) : s \in shorter, c \in alphabet}

(***************************************************************************)
(* ruleValidator: path normalisation and overlap                           *)
(***************************************************************************)
\* path.replace(/\\/g, '/').toLowerCase().trim()
normalizePath(path) ==
    IF FalsySeq(path) THEN <<>>
    ELSE trim(toLowerCase([i \in 1..Len(path) |->
                              IF path[i] = "\\" THEN "/" ELSE path[i]]))

\* The replacement text of one placeholder (the regexes are case-insensitive)
ExpandToken(c) ==
    CASE c \in {"%WINDIR%", "%windir%"} ->
            <<"C", ":", "\\", "W", "i", "n", "d", "o", "w", "s">>
      [] c \in {"%SYSTEM32%", "%system32%"} ->
            <<"C", ":", "\\", "W", "i", "n", "d", "o", "w", "s", "\\",
              "S", "y", "s", "t", "e", "m", "3", "2">>
      [] c \in {"%PROGRAMFILES%", "%programfiles%"} ->
            <<"C", ":", "\\", "P", "r", "o", "g", "r", "a", "m", " ",
              "F", "i", "l", "e", "s">>
      [] c \in {"%PROGRAMFILES(X86)%", "%programfiles(x86)%"} ->
            <<"C", ":", "\\", "P", "r", "o", "g", "r", "a", "m", " ",
              "F", "i", "l", "e", "s", " ", "(", "x", "8", "6", ")">>
      [] c \in {"%PROGRAMDATA%", "%programdata%"} ->
            <<"C", ":", "\\", "P", "r", "o", "g", "r", "a", "m",
              "D", "a", "t", "a">>
      [] c \in {"%OSDRIVE%", "%osdrive%"} -> <<"C", ":">>
      [] OTHER -> <<c>>

expandPath(path) ==
    IF FalsySeq(path) THEN <<>>
    ELSE Flatten([i \in 1..Len(path) |-> ExpandToken(path[i])])

\* norm.replace(/\/\*$/, '').replace(/\*$/, '')
stripWildcard(norm) ==
    LET s1 == IF endsWith(norm, <<"/", "*">>)
              THEN SubSeq(norm, 1, Len(norm) - 2) ELSE norm
    IN  IF endsWith(s1, <<"*">>) THEN SubSeq(s1, 1, Len(s1) - 1) ELSE s1

\* A one-sided overlap test: the second containment check is missing
pathsOverlapOneSided(p1, p2) ==
    IF FalsySeq(p1) \/ FalsySeq(p2) THEN FALSE
    ELSE LET norm1 == normalizePath(expandPath(p1))
             norm2 == normalizePath(expandPath(p2))
             base1 == stripWildcard(norm1)
             base2 == stripWildcard(norm2)
         IN  \/ norm1 = norm2
             \/ base1 # <<>> /\ startsWith(norm2, Append(base1, "/"))
             \/ base1 = base2

pathsOverlap(p1, p2) ==
    IF FalsySeq(p1) \/ FalsySeq(p2) THEN FALSE
    ELSE LET norm1 == normalizePath(expandPath(p1))
             norm2 == normalizePath(expandPath(p2))
             base1 == stripWildcard(norm1)
             base2 == stripWildcard(norm2)
         IN  \/ norm1 = norm2
             \/ base1 # <<>> /\ startsWith(norm2, Append(base1, "/"))
             \/ base2 # <<>> /\ startsWith(norm1, Append(base2, "/"))
             \/ base1 = base2

(***************************************************************************)
(* Rules and conditions.  A condition object carries the keys of its kind; *)
(* a key it does not carry is Absent / AbsentSeq.                          *)
(***************************************************************************)
Everyone == "S-1-1-0"
Administrators == "S-1-5-32-544"

NoCond ==
    [type |-> "", path |-> AbsentSeq,
     publisher_name |-> AbsentSeq, product_name |-> Absent,
     binary_name |-> Absent, version |-> Absent,
     version_range_type |-> Absent, version_value |-> Absent,
     file_hash |-> AbsentSeq, hash_type |-> Absent,
     source_file_name |-> Absent, source_file_length |-> Absent]

PathCond(p) == [NoCond EXCEPT !.type = "FilePathCondition", !.path = p]

PublisherCond(pub, product, binary, ver, rangeType, value) ==
    [NoCond EXCEPT !.type = "FilePublisherCondition",
                   !.publisher_name = pub, !.product_name = product,
                   !.binary_name = binary, !.version = ver,
                   !.version_range_type = rangeType, !.version_value = value]

HashCond(hash, hashType, fileName, fileLength) ==
    [NoCond EXCEPT !.type = "FileHashCondition",
                   !.file_hash = hash, !.hash_type = hashType,
                   !.source_file_name = fileName,
                   !.source_file_length = fileLength]

(***************************************************************************)
(* ruleValidator: matching a condition, a rule and a policy against a test *)
(* case.  A call either returns a boolean or throws a TypeError (a method  *)
(* called on a publisher or hash that the test case does not give).        *)
(***************************************************************************)
True == "true"
False == "false"
TypeError == "TypeError"

Bool(b) == IF b THEN True ELSE False

pathConditionMatches(condition, testPath) ==
    IF condition.type # "FilePathCondition" THEN False
    ELSE IF FalsySeq(condition.path) THEN False
    ELSE Bool(pathsOverlap(condition.path, testPath))

publisherConditionMatches(condition, testPublisher) ==
    IF condition.type # "FilePublisherCondition" THEN False
    ELSE IF FalsySeq(condition.publisher_name) THEN False
    ELSE IF condition.publisher_name = <<"*">> THEN True
    ELSE IF condition.publisher_name = testPublisher THEN True
    ELSE IF testPublisher \in {NullSeq, AbsentSeq} THEN TypeError
    ELSE Bool(includes(testPublisher, condition.publisher_name))

\* s.replace(/^0x/i, '')
stripHexPrefix(s) ==
    IF Len(s) >= 2 /\ s[1] = "0" /\ s[2] \in {"x", "X"}
    THEN SubSeq(s, 3, Len(s)) ELSE s

hashConditionMatches(condition, testHash) ==
    IF condition.type # "FileHashCondition" THEN False
    ELSE IF FalsySeq(condition.file_hash) THEN False
    ELSE IF testHash \in {NullSeq, AbsentSeq} THEN TypeError
    ELSE Bool(toUpperCase(stripHexPrefix(condition.file_hash))
                = toUpperCase(stripHexPrefix(testHash)))

conditionMatches(condition, tc) ==
    CASE condition.type = "FilePathCondition" ->
            pathConditionMatches(condition, tc.path)
      [] condition.type = "FilePublisherCondition" ->
            publisherConditionMatches(condition, tc.publisher)
      [] condition.type = "FileHashCondition" ->
            hashConditionMatches(condition, tc.hash)
      [] OTHER -> False

exceptionMatches(exception, tc) == conditionMatches(exception, tc)

\* conds.some(c => conditionMatches(c, tc)): in order, up to the first match
RECURSIVE someMatches(_, _)
someMatches(conds, tc) ==
    IF conds = <<>> THEN False
    ELSE LET m == conditionMatches(Head(conds), tc)
         IN  IF m = False THEN someMatches(Tail(conds), tc) ELSE m

ruleMatches(rule, tc) ==
    LET ruleSid == IF Falsy(rule.user_or_group_sid) THEN Everyone
                   ELSE rule.user_or_group_sid
    IN  IF ~Falsy(tc.collection) /\ rule.collection # tc.collection THEN False
        ELSE IF ~Falsy(tc.userSid) /\ ruleSid # tc.userSid /\ ruleSid # Everyone
        THEN False
        ELSE LET conditionsMatch == someMatches(rule.conditions, tc)
             IN  IF conditionsMatch # True THEN conditionsMatch
                 ELSE LET excluded == someMatches(rule.exceptions, tc)
                      IN  IF excluded = True THEN False
                          ELSE IF excluded = TypeError THEN TypeError
                          ELSE True

Thrown ==
    [error |-> TypeError, allowed |-> FALSE, denied |-> FALSE,
     matchingRules |-> <<>>, reason |-> <<"", "">>]

\* The loop of testPolicy over the relevant rules
RECURSIVE testPolicyLoop(_, _, _)
testPolicyLoop(relevantRules, tc, res) ==
    IF relevantRules = <<>> THEN res
    ELSE LET rule == Head(relevantRules)
             m == ruleMatches(rule, tc)
             listed == Append(res.matchingRules,
                              [id |-> rule.id, name |-> rule.name,
                               action |-> rule.action])
         IN  IF m = TypeError THEN Thrown
             ELSE IF m = False THEN testPolicyLoop(Tail(relevantRules), tc, res)
             ELSE IF rule.action = "Allow"
             THEN testPolicyLoop(Tail(relevantRules), tc,
                     [res EXCEPT !.matchingRules = listed, !.allowed = TRUE,
                                 !.reason = <<"Allowed by rule: ", rule.name>>])
             ELSE IF rule.action = "Deny"
             THEN [res EXCEPT !.matchingRules = listed, !.denied = TRUE,
                              !.reason = <<"Denied by rule: ", rule.name>>]
             ELSE testPolicyLoop(Tail(relevantRules), tc,
                     [res EXCEPT !.matchingRules = listed])

DefaultDenyReason == <<"No matching rule found (default deny)", "">>

testPolicy(rules, tc) ==
    LET InCollection(r) == r.collection = tc.collection
        relevantRules == IF ~Falsy(tc.collection)
                         THEN SelectSeq(rules, InCollection) ELSE rules
        res == testPolicyLoop(relevantRules, tc,
                   [error |-> "", allowed |-> FALSE, denied |-> FALSE,
                    matchingRules |-> <<>>, reason |-> <<"", "">>])
    IN  IF res.error = "" /\ ~res.allowed /\ ~res.denied
        THEN [res EXCEPT !.reason = DefaultDenyReason]
        ELSE res

(***************************************************************************)
(* xmlGenerator: generation.  A document is the element tree that the      *)
(* serializer writes and the parser reads back: a root, its RuleCollection *)
(* elements, their rule elements, and the condition elements under the     *)
(* Conditions and Exceptions element of each rule.  An attribute that an   *)
(* element does not carry is Absent / AbsentSeq (getAttribute gives null). *)
(***************************************************************************)
Collections == <<"Exe", "Script", "Dll", "Msi", "Appx">>

NoModes == [c \in {Collections[i] : i \in 1..Len(Collections)} |-> Absent]

\* setAttribute converts its value to a string
String(v) ==
    CASE v = Null -> "null"
      [] v = Absent -> "undefined"
      [] OTHER -> v

NoCondElem ==
    [tag |-> "", Path |-> AbsentSeq, PublisherName |-> AbsentSeq,
     ProductName |-> Absent, BinaryName |-> Absent,
     ProductNameChild |-> Absent, BinaryNameChild |-> Absent,
     BinaryVersionRange |-> <<>>, FileHash |-> <<>>]

createPathCondition(condition) ==
    [NoCondElem EXCEPT !.tag = "FilePathCondition",
                       !.Path = IF FalsySeq(condition.path) THEN <<>>
                                ELSE condition.path]

\* LowSection / HighSection of a condition that carries version_range_type
VersionSections(condition) ==
    IF condition.version_range_type = "and_above" /\ ~Falsy(condition.version_value)
    THEN [LowSection |-> condition.version_value, HighSection |-> "*"]
    ELSE IF condition.version_range_type = "and_below" /\ ~Falsy(condition.version_value)
    THEN [LowSection |-> "*", HighSection |-> condition.version_value]
    ELSE IF condition.version_range_type = "exactly" /\ ~Falsy(condition.version_value)
    THEN [LowSection |-> condition.version_value, HighSection |-> condition.version_value]
    ELSE [LowSection |-> "*", HighSection |-> "*"]

\* The legacy `version` string of a condition without version_range_type: one
\* version, taken as "exactly" (a condition of this model that carries a
\* low-high version also carries version_range_type)
LegacySections(condition) ==
    IF Falsy(condition.version) \/ condition.version = "*"
    THEN [LowSection |-> "*", HighSection |-> "*"]
    ELSE [LowSection |-> condition.version, HighSection |-> condition.version]

createPublisherCondition(condition) ==
    LET sections == IF ~Falsy(condition.version_range_type)
                    THEN VersionSections(condition)
                    ELSE LegacySections(condition)
    IN  [NoCondElem EXCEPT
            !.tag = "FilePublisherCondition",
            !.PublisherName = IF FalsySeq(condition.publisher_name)
                              THEN <<"*">> ELSE condition.publisher_name,
            !.ProductName = IF Falsy(condition.product_name)
                            THEN "*" ELSE condition.product_name,
            !.BinaryName = IF Falsy(condition.binary_name)
                           THEN "*" ELSE condition.binary_name,
            !.BinaryVersionRange = <<sections>>]

\* The Data attribute of a FileHash element
HashData(file_hash) ==
    LET hashData == IF FalsySeq(file_hash) THEN <<>> ELSE file_hash
    IN  IF hashData # <<>> /\ ~startsWith(hashData, <<"0", "x">>)
                           /\ ~startsWith(hashData, <<"0", "X">>)
        THEN <<"0", "x">> \o toUpperCase(hashData)
        ELSE hashData

\* One FileHash element
FileHashElem(condition) ==
    [Type |-> IF Falsy(condition.hash_type) THEN "SHA256" ELSE condition.hash_type,
     Data |-> HashData(condition.file_hash),
     SourceFileName |-> IF Falsy(condition.source_file_name) THEN ""
                        ELSE condition.source_file_name,
     SourceFileLength |-> IF Falsy(condition.source_file_length) THEN Absent
                          ELSE condition.source_file_length]

createHashCondition(condition) ==
    [NoCondElem EXCEPT !.tag = "FileHashCondition",
                       !.FileHash = <<FileHashElem(condition)>>]

\* Every condition of this model carries its type
createCondition(condition) ==
    CASE condition.type = "FilePathCondition" -> createPathCondition(condition)
      [] condition.type = "FilePublisherCondition" -> createPublisherCondition(condition)
      [] condition.type = "FileHashCondition" -> createHashCondition(condition)

determineRuleType(conditions) ==
    IF conditions = <<>> THEN "FilePathRule"
    ELSE IF \A i \in 1..Len(conditions) : conditions[i].type = "FileHashCondition"
    THEN "FileHashRule"
    ELSE IF \A i \in 1..Len(conditions) : conditions[i].type = "FilePublisherCondition"
    THEN "FilePublisherRule"
    ELSE "FilePathRule"

\* An exception element; BinaryVersionRange is left out when it is * to *
createException(exception) ==
    CASE exception.type = "FilePathCondition" -> createPathCondition(exception)
      [] exception.type = "FilePublisherCondition" ->
            LET sections == IF ~Falsy(exception.version_range_type)
                            THEN VersionSections(exception)
                            ELSE LegacySections(exception)
                elem == createPublisherCondition(exception)
            IN  IF sections.LowSection # "*" \/ sections.HighSection # "*"
                THEN [elem EXCEPT !.BinaryVersionRange = <<sections>>]
                ELSE [elem EXCEPT !.BinaryVersionRange = <<>>]
      [] exception.type = "FileHashCondition" -> createHashCondition(exception)

IsHashCondition(c) == c.type = "FileHashCondition"

\* The children of the Conditions element of a FileHashRule, one element per
\* hash condition instead of one merged element
UnmergedHashConditions(conditions) ==
    [i \in 1..Len(conditions) |-> createHashCondition(conditions[i])]

\* The children of the Conditions element of a FileHashRule: one
\* FileHashCondition holding a FileHash per hash condition
MergedHashConditions(conditions) ==
    LET hashConditions == SelectSeq(conditions, IsHashCondition)
    IN  IF hashConditions = <<>> THEN <<>>
        ELSE << [NoCondElem EXCEPT
                   !.tag = "FileHashCondition",
                   !.FileHash = [i \in 1..Len(hashConditions) |->
                                    FileHashElem(hashConditions[i])]] >>

GeneratedRuleId == "generated-uuid"

\* createRule of the XML generator
createRuleElement(rule) ==
    LET ruleType == determineRuleType(rule.conditions)
    IN  [tag |-> ruleType,
         Id |-> IF Falsy(rule.id) THEN GeneratedRuleId ELSE rule.id,
         Name |-> String(rule.name),
         Description |-> IF Falsy(rule.description) THEN "" ELSE rule.description,
         UserOrGroupSid |-> IF Falsy(rule.user_or_group_sid) THEN Everyone
                            ELSE rule.user_or_group_sid,
         Action |-> String(rule.action),
         UserOrGroupSidChild |-> Absent,
         ActionChild |-> Absent,
         hasConditions |-> TRUE,
         Conditions |-> IF ruleType = "FileHashRule"
                        THEN MergedHashConditions(rule.conditions)
                        ELSE [i \in 1..Len(rule.conditions) |->
                                 createCondition(rule.conditions[i])],
         hasExceptions |-> rule.exceptions # <<>>,
         Exceptions |-> [i \in 1..Len(rule.exceptions) |->
                            createException(rule.exceptions[i])]]

createCollection(collectionType, rules, enforcementMode) ==
    [Type |-> collectionType,
     EnforcementMode |-> enforcementMode,
     children |-> [i \in 1..Len(rules) |-> createRuleElement(rules[i])]]

\* The RuleCollection elements for the collection types from position i on
RECURSIVE GenerateCollections(_, _, _)
GenerateCollections(rules, enforcementModes, i) ==
    IF i > Len(Collections) THEN <<>>
    ELSE LET collectionType == Collections[i]
             InType(r) == r.collection = collectionType
             collectionRules == SelectSeq(rules, InType)
             collectionEnforcement ==
                 IF Falsy(enforcementModes[collectionType]) THEN "AuditOnly"
                 ELSE enforcementModes[collectionType]
             rest == GenerateCollections(rules, enforcementModes, i + 1)
         IN  IF collectionRules # <<>>
             THEN <<createCollection(collectionType, collectionRules,
                                     collectionEnforcement)>> \o rest
             ELSE rest

generatePolicy(rules, enforcementModes, ver) ==
    [wellFormed |-> TRUE,
     root |-> "AppLockerPolicy",
     Version |-> ver,
     collections |-> GenerateCollections(rules, enforcementModes, 1)]

(***************************************************************************)
(* xmlGenerator: parsing                                                   *)
(***************************************************************************)
\* getAttribute(name) || fallback
AttrOr(v, fallback) == IF Falsy(v) THEN fallback ELSE v

AttrOrSeq(v, fallback) == IF FalsySeq(v) THEN fallback ELSE v

mapCollectionType(typeStr) ==
    IF \E i \in 1..Len(Collections) : Collections[i] = typeStr
    THEN typeStr ELSE "Exe"

\* version_range_type, version and version_value of a publisher element
ParseVersionRange(elem) ==
    IF elem.BinaryVersionRange = <<>>
    THEN [type |-> "any", version |-> "*", value |-> ""]
    ELSE LET lowSection == AttrOr(elem.BinaryVersionRange[1].LowSection, "*")
             highSection == AttrOr(elem.BinaryVersionRange[1].HighSection, "*")
         IN  IF lowSection = "*" /\ highSection = "*"
             THEN [type |-> "any", version |-> "*", value |-> ""]
             ELSE IF lowSection # "*" /\ highSection = "*"
             THEN [type |-> "and_above", version |-> lowSection \o "-*",
                   value |-> lowSection]
             ELSE IF lowSection = "*" /\ highSection # "*"
             THEN [type |-> "and_below", version |-> "*-" \o highSection,
                   value |-> highSection]
             ELSE IF lowSection = highSection
             THEN [type |-> "exactly", version |-> lowSection, value |-> lowSection]
             ELSE [type |-> "any", version |-> "*", value |-> ""]

ParsePathElem(elem) == PathCond(AttrOrSeq(elem.Path, <<>>))

\* A publisher element under Conditions: a ProductName / BinaryName child
\* element goes before the attribute
ParsePublisherCondition(elem) ==
    LET range == ParseVersionRange(elem)
    IN  PublisherCond(AttrOrSeq(elem.PublisherName, <<"*">>),
                      IF elem.ProductNameChild # Absent THEN elem.ProductNameChild
                      ELSE AttrOr(elem.ProductName, "*"),
                      IF elem.BinaryNameChild # Absent THEN elem.BinaryNameChild
                      ELSE AttrOr(elem.BinaryName, "*"),
                      range.version, range.type, range.value)

\* A publisher element under Exceptions: attributes only
ParsePublisherException(elem) ==
    LET range == ParseVersionRange(elem)
    IN  PublisherCond(AttrOrSeq(elem.PublisherName, <<"*">>),
                      AttrOr(elem.ProductName, "*"),
                      AttrOr(elem.BinaryName, "*"),
                      range.version, range.type, range.value)

ParseFileHash(fileHashElem) ==
    LET data == AttrOrSeq(fileHashElem.Data, <<>>)
        hashData == IF startsWith(data, <<"0", "x">>) \/ startsWith(data, <<"0", "X">>)
                    THEN SubSeq(data, 3, Len(data)) ELSE data
    IN  HashCond(hashData,
                 AttrOr(fileHashElem.Type, "SHA256"),
                 AttrOr(fileHashElem.SourceFileName, ""),
                 AttrOr(fileHashElem.SourceFileLength, Null))

IsPathElem(e) == e.tag = "FilePathCondition"
IsPublisherElem(e) == e.tag = "FilePublisherCondition"
IsHashElem(e) == e.tag = "FileHashCondition"

\* One condition per FileHash of every FileHashCondition element
ParseHashElems(elems) ==
    LET hashElems == SelectSeq(elems, IsHashElem)
    IN  Flatten([i \in 1..Len(hashElems) |->
                    [k \in 1..Len(hashElems[i].FileHash) |->
                        ParseFileHash(hashElems[i].FileHash[k])]])

\* The conditions read from the elements below one parent: the path
\* elements, then the publisher elements, then the hash elements
ParseConditionElems(elems) ==
    LET pathElems == SelectSeq(elems, IsPathElem)
        publisherElems == SelectSeq(elems, IsPublisherElem)
    IN  [i \in 1..Len(pathElems) |-> ParsePathElem(pathElems[i])]
        \o [i \in 1..Len(publisherElems) |->
                ParsePublisherCondition(publisherElems[i])]
        \o ParseHashElems(elems)

ParseExceptionElems(elems) ==
    LET pathElems == SelectSeq(elems, IsPathElem)
        publisherElems == SelectSeq(elems, IsPublisherElem)
    IN  [i \in 1..Len(pathElems) |-> ParsePathElem(pathElems[i])]
        \o [i \in 1..Len(publisherElems) |->
                ParsePublisherException(publisherElems[i])]
        \o ParseHashElems(elems)

parseRuleElement(ruleElem, collectionType) ==
    LET userSid == IF ~Falsy(ruleElem.UserOrGroupSid) THEN ruleElem.UserOrGroupSid
                   ELSE IF ruleElem.UserOrGroupSidChild # Absent
                   THEN ruleElem.UserOrGroupSidChild
                   ELSE Everyone
        actionStr == IF ~Falsy(ruleElem.Action) THEN ruleElem.Action
                     ELSE IF ruleElem.ActionChild # Absent THEN ruleElem.ActionChild
                     ELSE "Allow"
        exceptionElems == IF ruleElem.hasExceptions THEN ruleElem.Exceptions ELSE <<>>
        \* without a Conditions element the rule element itself is searched
        conditionElems == IF ruleElem.hasConditions THEN ruleElem.Conditions
                          ELSE exceptionElems
    IN  [id |-> AttrOr(ruleElem.Id, ""),
         name |-> AttrOr(ruleElem.Name, ""),
         description |-> AttrOr(ruleElem.Description, ""),
         collection |-> collectionType,
         action |-> IF actionStr = "Allow" THEN "Allow" ELSE "Deny",
         user_or_group_sid |-> userSid,
         conditions |-> ParseConditionElems(conditionElems),
         exceptions |-> ParseExceptionElems(exceptionElems),
         created_at |-> 0,
         updated_at |-> 0]

IsRuleElem(e) == e.tag \in {"FilePathRule", "FileHashRule", "FilePublisherRule"}

\* The rules of the collections from position i on, in document order
RECURSIVE ParseCollections(_, _)
ParseCollections(collections, i) ==
    IF i > Len(collections) THEN <<>>
    ELSE LET collectionType == mapCollectionType(AttrOr(collections[i].Type, ""))
             ruleElements == SelectSeq(collections[i].children, IsRuleElem)
         IN  [k \in 1..Len(ruleElements) |->
                 parseRuleElement(ruleElements[k], collectionType)]
             \o ParseCollections(collections, i + 1)

\* The enforcement modes of the collections up to position i: a later
\* collection of the same type overwrites an earlier one
RECURSIVE ParseModes(_, _)
ParseModes(collections, i) ==
    IF i = 0 THEN NoModes
    ELSE [ParseModes(collections, i - 1) EXCEPT
            ![mapCollectionType(AttrOr(collections[i].Type, ""))] =
                AttrOr(collections[i].EnforcementMode, "AuditOnly")]

ParseError == [error |-> "parse", rules |-> <<>>, enforcementModes |-> NoModes,
               version |-> ""]

parseXML(doc) ==
    IF ~doc.wellFormed THEN ParseError
    ELSE IF doc.root \notin {"AppLockerPolicy", "RuleCollection"} THEN ParseError
    ELSE [error |-> "",
          rules |-> ParseCollections(doc.collections, 1),
          enforcementModes |-> ParseModes(doc.collections, Len(doc.collections)),
          version |-> IF doc.root = "AppLockerPolicy"
                      THEN AttrOr(doc.Version, "1") ELSE "1"]

(***************************************************************************)
(* storage: the rules, the enforcement modes and the policy version kept   *)
(* in localStorage.  What is stored survives JSON unchanged: every value   *)
(* of this model is a string, null or a list of objects of those.          *)
(***************************************************************************)
\* sid.trim() for the principals of this model
TrimStr(s) ==
    CASE s = " " -> ""
      [] s = " S-1-5-32-544" -> "S-1-5-32-544"
      [] s = " S-1-1-0" -> "S-1-1-0"
      [] OTHER -> s

normalizeSid(sid) ==
    IF Falsy(sid) \/ sid = Everyone \/ TrimStr(sid) = "" THEN Null
    ELSE TrimStr(sid)

\* A condition list kept in the order given
conditionsAsGiven(conditions) == conditions

\* The canonical form of a condition list: the sorted list of its
\* conditions, each with its entries sorted by key.  Two canonical forms are
\* the same JSON text exactly when the lists hold the same conditions the
\* same number of times, so the form is kept as that count per condition.
normalizeConditionsForComparison(conditions) ==
    [c \in {conditions[i] : i \in 1..Len(conditions)} |->
        Cardinality({i \in 1..Len(conditions) : conditions[i] = c})]

normalizeExceptionsForComparison(exceptions) ==
    normalizeConditionsForComparison(exceptions)

isDuplicateRule(rule1, rule2) ==
    /\ rule1.collection = rule2.collection
    /\ rule1.action = rule2.action
    /\ normalizeSid(rule1.user_or_group_sid) = normalizeSid(rule2.user_or_group_sid)
    /\ normalizeConditionsForComparison(rule1.conditions)
         = normalizeConditionsForComparison(rule2.conditions)
    /\ normalizeExceptionsForComparison(rule1.exceptions)
         = normalizeExceptionsForComparison(rule2.exceptions)

\* A search that finds no duplicate
findNoDuplicate(newRule, existingRules) == 0

\* The position of the first duplicate of newRule in existingRules, 0 if none
findDuplicateRule(newRule, existingRules) ==
    IF \E i \in 1..Len(existingRules) : isDuplicateRule(newRule, existingRules[i])
    THEN CHOOSE i \in 1..Len(existingRules) :
            /\ isDuplicateRule(newRule, existingRules[i])
            /\ \A k \in 1..(i - 1) : ~isDuplicateRule(newRule, existingRules[k])
    ELSE 0

NoRule ==
    [id |-> "", name |-> "", description |-> "", collection |-> "", action |-> "",
     user_or_group_sid |-> Null, conditions |-> <<>>, exceptions |-> <<>>,
     created_at |-> 0, updated_at |-> 0]

\* createRule that never looks for a duplicate
createRuleNoDuplicateCheck(stored, ruleData, newId, now, saveOk) ==
    LET newRule == [id |-> newId,
                    name |-> ruleData.name,
                    description |-> AttrOr(ruleData.description, ""),
                    collection |-> ruleData.collection,
                    action |-> ruleData.action,
                    user_or_group_sid |-> AttrOr(ruleData.user_or_group_sid, Null),
                    conditions |-> ruleData.conditions,
                    exceptions |-> ruleData.exceptions,
                    created_at |-> now,
                    updated_at |-> now]
    IN  IF ~saveOk
        THEN [threw |-> TRUE, inserted |-> FALSE, rule |-> NoRule, rules |-> stored]
        ELSE [threw |-> FALSE, inserted |-> TRUE, rule |-> newRule,
              rules |-> Append(stored, newRule)]

\* storage.createRule on the stored rules: the outcome, the rule returned and
\* the rules stored afterwards.  saveOk: localStorage.setItem does not throw.
createRule(stored, ruleData, newId, now, saveOk) ==
    LET newRule == [id |-> newId,
                    name |-> ruleData.name,
                    description |-> AttrOr(ruleData.description, ""),
                    collection |-> ruleData.collection,
                    action |-> ruleData.action,
                    user_or_group_sid |-> AttrOr(ruleData.user_or_group_sid, Null),
                    conditions |-> ruleData.conditions,
                    exceptions |-> ruleData.exceptions,
                    created_at |-> now,
                    updated_at |-> now]
        duplicate == findDuplicateRule(newRule, stored)
    IN  IF duplicate # 0
        THEN [threw |-> FALSE, inserted |-> FALSE, rule |-> stored[duplicate],
              rules |-> stored]
        ELSE IF ~saveOk
        THEN [threw |-> TRUE, inserted |-> FALSE, rule |-> NoRule, rules |-> stored]
        ELSE [threw |-> FALSE, inserted |-> TRUE, rule |-> newRule,
              rules |-> Append(stored, newRule)]

\* collection = Null: every rule.  The stored JSON text holds the rules in
\* the order of the array that was saved.
getRules(stored, collection) ==
    LET InCollection(rule) == rule.collection = collection
    IN  IF ~Falsy(collection) THEN SelectSeq(stored, InCollection) ELSE stored

\* getRules that gives the rules of every collection
getRulesUnfiltered(stored, collection) == stored

\* A search that settles for the last rule
findIndexOrLast(stored, ruleId) ==
    IF \E i \in 1..Len(stored) : stored[i].id = ruleId
    THEN CHOOSE i \in 1..Len(stored) : stored[i].id = ruleId
    ELSE Len(stored)

\* rules.findIndex(r => r.id === ruleId), 0 if there is none
findIndex(stored, ruleId) ==
    IF \E i \in 1..Len(stored) : stored[i].id = ruleId
    THEN CHOOSE i \in 1..Len(stored) :
            stored[i].id = ruleId /\ \A k \in 1..(i - 1) : stored[k].id # ruleId
    ELSE 0

\* rules.find(...) || null
getRule(stored, ruleId) ==
    LET ruleIndex == findIndex(getRules(stored, Null), ruleId)
    IN  IF ruleIndex = 0 THEN [null |-> TRUE, rule |-> NoRule]
        ELSE [null |-> FALSE, rule |-> stored[ruleIndex]]

\* updateRule that puts ruleData in the place of the stored rule
updateRuleReplace(stored, ruleId, fields, ruleData, now, saveOk) ==
    LET ruleIndex == findIndex(stored, ruleId)
    IN  IF ruleIndex = 0
        THEN [threw |-> TRUE, error |-> "Rule not found", rule |-> NoRule,
              rules |-> stored]
        ELSE IF ~saveOk
        THEN [threw |-> TRUE, error |-> "save", rule |-> NoRule, rules |-> stored]
        ELSE LET existingRule ==
                    [id |-> ruleId, name |-> ruleData.name,
                     description |-> ruleData.description,
                     collection |-> ruleData.collection,
                     action |-> ruleData.action,
                     user_or_group_sid |-> ruleData.user_or_group_sid,
                     conditions |-> ruleData.conditions,
                     exceptions |-> ruleData.exceptions,
                     created_at |-> stored[ruleIndex].created_at,
                     updated_at |-> now]
             IN  [threw |-> FALSE, error |-> "", rule |-> existingRule,
                  rules |-> [stored EXCEPT ![ruleIndex] = existingRule]]

\* updateRule that refuses a rule that was updated before
updateRuleUnlessUpdated(stored, ruleId, fields, ruleData, now, saveOk) ==
    LET ruleIndex == findIndex(stored, ruleId)
    IN  IF ruleIndex # 0 /\ stored[ruleIndex].updated_at # stored[ruleIndex].created_at
        THEN [threw |-> TRUE, error |-> "Rule was changed", rule |-> NoRule,
              rules |-> stored]
        ELSE updateRuleReplace(stored, ruleId, fields, ruleData, now, saveOk)

\* The fields of ruleData that are not undefined are given in `fields`
updateRule(stored, ruleId, fields, ruleData, now, saveOk) ==
    LET ruleIndex == findIndex(stored, ruleId)
        Pick(f, old, new) == IF f \in fields THEN new ELSE old
    IN  IF ruleIndex = 0
        THEN [threw |-> TRUE, error |-> "Rule not found", rule |-> NoRule,
              rules |-> stored]
        ELSE LET old == stored[ruleIndex]
                 existingRule ==
                    [id |-> old.id,
                     name |-> Pick("name", old.name, ruleData.name),
                     description |->
                        Pick("description", old.description, ruleData.description),
                     collection |->
                        Pick("collection", old.collection, ruleData.collection),
                     action |-> Pick("action", old.action, ruleData.action),
                     user_or_group_sid |->
                        Pick("user_or_group_sid", old.user_or_group_sid,
                             ruleData.user_or_group_sid),
                     conditions |->
                        Pick("conditions", old.conditions, ruleData.conditions),
                     exceptions |->
                        Pick("exceptions", old.exceptions, ruleData.exceptions),
                     created_at |-> old.created_at,
                     updated_at |-> now]
             IN  IF ~saveOk
                 THEN [threw |-> TRUE, error |-> "save", rule |-> NoRule,
                       rules |-> stored]
                 ELSE [threw |-> FALSE, error |-> "", rule |-> existingRule,
                       rules |-> [stored EXCEPT ![ruleIndex] = existingRule]]

\* deleteRule that fills the gap with the last rule
deleteRuleSwapRemove(stored, ruleId, saveOk) ==
    LET ruleIndex == findIndexOrLast(stored, ruleId)
    IN  IF ruleIndex = 0 \/ stored[ruleIndex].id # ruleId
        THEN [threw |-> TRUE, error |-> "Rule not found", rules |-> stored]
        ELSE IF ~saveOk
        THEN [threw |-> TRUE, error |-> "save", rules |-> stored]
        ELSE [threw |-> FALSE, error |-> "",
              rules |-> IF ruleIndex = Len(stored)
                        THEN SubSeq(stored, 1, Len(stored) - 1)
                        ELSE [SubSeq(stored, 1, Len(stored) - 1)
                                EXCEPT ![ruleIndex] = stored[Len(stored)]]]

deleteRule(stored, ruleId, saveOk) ==
    LET ruleIndex == findIndex(stored, ruleId)
    IN  IF ruleIndex = 0
        THEN [threw |-> TRUE, error |-> "Rule not found", rules |-> stored]
        ELSE IF ~saveOk
        THEN [threw |-> TRUE, error |-> "save", rules |-> stored]
        ELSE [threw |-> FALSE, error |-> "",
              rules |-> SubSeq(stored, 1, ruleIndex - 1)
                        \o SubSeq(stored, ruleIndex + 1, Len(stored))]

\* collection = Null: every rule
deleteAllRules(stored, collection, saveOk) ==
    LET Kept(r) == r.collection # collection
    IN  IF ~saveOk THEN [threw |-> TRUE, rules |-> stored]
        ELSE IF ~Falsy(collection)
        THEN [threw |-> FALSE, rules |-> SelectSeq(stored, Kept)]
        ELSE [threw |-> FALSE, rules |-> <<>>]

getPolicyVersion(stored) == AttrOr(stored, "1")

(***************************************************************************)
(* api: importXML.  The writes of one call are numbered: 1 the enforcement *)
(* modes, 2 the policy version, 2 + i the save of the i-th parsed rule;    *)
(* `failing` is the set of the writes at which localStorage throws.        *)
(***************************************************************************)
\* The loop over the parsed rules, from rule i on.  acc: the rules stored,
\* the next fresh id, the rules reported as imported, the duplicates skipped.
RECURSIVE ImportLoop(_, _, _, _, _)
ImportLoop(importedRules, i, now, failing, acc) ==
    IF i > Len(importedRules) THEN acc
    ELSE LET parsedRule == importedRules[i]
             rule == [parsedRule EXCEPT
                         !.id = IF Falsy(parsedRule.id) THEN ToString(acc.nextId)
                                ELSE parsedRule.id,
                         !.created_at = now,
                         !.updated_at = now]
             idsUsed == IF Falsy(parsedRule.id) THEN 1 ELSE 0
             duplicate == findDuplicateRule(rule, acc.rules)
             created == createRule(acc.rules, rule, ToString(acc.nextId + idsUsed),
                                   now, (2 + i) \notin failing)
         IN  IF duplicate # 0
             THEN ImportLoop(importedRules, i + 1, now, failing,
                             [acc EXCEPT !.skippedDuplicates = @ + 1,
                                         !.nextId = @ + idsUsed])
             ELSE ImportLoop(importedRules, i + 1, now, failing,
                             [acc EXCEPT
                                 !.validatedRules = Append(@, rule),
                                 !.rules = created.rules,
                                 !.nextId = @ + idsUsed + 1])

ImportFailed(store, msg) ==
    [threw |-> TRUE, error |-> msg, validatedRules |-> <<>>,
     skippedDuplicates |-> 0, store |-> store]

\* importXML from the parse result p on, on the store
\* [rules, enforcementModes, policyVersion, nextId]
ImportParsed(store, p, now, failing) ==
    IF p.rules = <<>> THEN ImportFailed(store, "No rules found in XML file")
    ELSE IF 1 \in failing THEN ImportFailed(store, "save")
    ELSE LET withModes == [store EXCEPT !.enforcementModes = p.enforcementModes]
         IN  IF 2 \in failing THEN ImportFailed(withModes, "save")
             ELSE LET withVersion == [withModes EXCEPT !.policyVersion = p.version]
                      acc == ImportLoop(p.rules, 1, now, failing,
                                [rules |-> store.rules, nextId |-> store.nextId,
                                 validatedRules |-> <<>>,
                                 skippedDuplicates |-> 0])
                      after == [withVersion EXCEPT !.rules = acc.rules,
                                                   !.nextId = acc.nextId]
                  IN  IF acc.validatedRules = <<>> /\ acc.skippedDuplicates = 0
                      THEN ImportFailed(after,
                                        "No valid rules could be imported from XML")
                      ELSE [threw |-> FALSE, error |-> "",
                            validatedRules |-> acc.validatedRules,
                            skippedDuplicates |-> acc.skippedDuplicates,
                            store |-> after]

\* importXML that stores the modes and the version before it looks at the
\* parse error
importXMLLateParseCheck(store, doc, now, failing) ==
    LET p == parseXML(doc)
    IN  IF p.error # ""
        THEN ImportFailed([store EXCEPT !.enforcementModes = p.enforcementModes,
                                        !.policyVersion = p.version], "parse")
        ELSE ImportParsed(store, p, now, failing)

\* importXML: the outcome and the store afterwards
importXML(store, doc, now, failing) ==
    LET p == parseXML(doc)
    IN  IF p.error # "" THEN ImportFailed(store, "parse")
        ELSE ImportParsed(store, p, now, failing)

(***************************************************************************)
(* ruleValidator: the required-field checks of validateRule                *)
(***************************************************************************)
ConditionErrors(condition, index) ==
    LET field == "conditions[" \o ToString(index) \o "]"
    IN  (IF Falsy(condition.type) THEN {field} ELSE {})
        \cup (IF condition.type = "FilePathCondition" /\ FalsySeq(condition.path)
              THEN {field \o ".path"} ELSE {})
        \cup (IF condition.type = "FilePublisherCondition"
                 /\ FalsySeq(condition.publisher_name)
              THEN {field \o ".publisher_name"} ELSE {})
        \cup (IF condition.type = "FileHashCondition" /\ FalsySeq(condition.file_hash)
              THEN {field \o ".file_hash"} ELSE {})
        \cup (IF condition.type = "FileHashCondition"
                 /\ Falsy(condition.source_file_name)
              THEN {field \o ".source_file_name"} ELSE {})

\* The fields validateRule reports an error for
validateRuleErrors(rule) ==
    (IF Falsy(rule.name) \/ TrimStr(rule.name) = "" THEN {"name"} ELSE {})
    \cup (IF Falsy(rule.collection) THEN {"collection"} ELSE {})
    \cup (IF Falsy(rule.action) THEN {"action"} ELSE {})
    \cup (IF rule.conditions = <<>> THEN {"conditions"}
          ELSE UNION {ConditionErrors(rule.conditions[i], i - 1) :
                        i \in 1..Len(rule.conditions)})

(***************************************************************************)
(* A harness leaves the variables of the others at rest                    *)
(***************************************************************************)
PathIdle ==
    /\ path1 = NullSeq
    /\ path2 = NullSeq
    /\ overlap12 = FALSE
    /\ overlap21 = FALSE

EvalIdle ==
    /\ testRules = <<>>
    /\ testCase = <<>>
    /\ results = <<>>
    /\ matches = <<>>

XmlIdle ==
    /\ xmlRules = <<>>
    /\ xmlDoc = <<>>
    /\ parsed = <<>>

\* A browser that has stored nothing yet, before any call
NoCall ==
    [op |-> "none", input |-> 0, id |-> "", failing |-> {}, threw |-> FALSE,
     error |-> "", ret |-> "", list |-> <<>>,
     validatedRules |-> <<>>, skippedDuplicates |-> 0,
     before |-> [rules |-> <<>>, enforcementModes |-> NoModes,
                 policyVersion |-> Absent]]

PubIdle ==
    /\ pubCondition = NoCond
    /\ pubTest = AbsentSeq
    /\ pubMatch = False

ConflictIdle ==
    /\ conflictRules = <<>>
    /\ conflicts = [threw |-> FALSE, conflicts |-> <<>>]

DupIdle ==
    /\ dupRule1 = NoRule
    /\ dupRule2 = NoRule
    /\ isDup = FALSE

StoreIdle ==
    /\ ruleStore = <<>>
    /\ modeStore = NoModes
    /\ versionStore = Absent
    /\ nextId = 1
    /\ ops = 0
    /\ last = NoCall
    /\ prev = NoCall

(***************************************************************************)
(* Harness for pathsOverlap: two path arguments, evaluated in both orders  *)
(***************************************************************************)
MaxPath1Len == 3
MaxPath2Len == 2

PathAlphabet == {"C", ":", "/", "\\", "*", "%OSDRIVE%"}

PathArgs(n) == SeqsUpTo(PathAlphabet, n) \cup {NullSeq}

PathInit ==
    /\ pc = "args"
    /\ path1 \in PathArgs(MaxPath1Len)
    /\ path2 = NullSeq
    /\ overlap12 = FALSE
    /\ overlap21 = FALSE
    /\ EvalIdle
    /\ XmlIdle
    /\ StoreIdle
    /\ DupIdle
    /\ ConflictIdle
    /\ PubIdle

ChoosePath2 ==
    /\ pc = "args"
    /\ pc' = "chosen"
    /\ \E p \in PathArgs(MaxPath2Len) : path2' = p
    /\ UNCHANGED <<path1, overlap12, overlap21, evalVars, xmlVars, storeVars, dupVars, conflictVars, pubVars>>

CallPathsOverlap ==
    /\ pc = "chosen"
    /\ pc' = "done"
    /\ overlap12' = pathsOverlap(path1, path2)
    /\ overlap21' = pathsOverlap(path2, path1)
    /\ UNCHANGED <<path1, path2, evalVars, xmlVars, storeVars, dupVars, conflictVars, pubVars>>

PathNext == ChoosePath2 \/ CallPathsOverlap

SpecPath == PathInit /\ [][PathNext]_vars

\* C7: pathsOverlap(a, b) equals pathsOverlap(b, a) for all pairs of path
\* patterns, including empty or missing values, wildcard-terminated patterns
\* and patterns with environment-variable placeholders.
PathsOverlapSymmetric ==
    pc = "done" => overlap12 = overlap21

\* A wildcard directory pattern against a file below it, given through a
\* placeholder on one side: both orders report an overlap.
PathsOverlapSymmetricWitness ==
    /\ pc = "done"
    /\ path1 = <<"C", ":", "/">>
    /\ path2 = <<"%OSDRIVE%", "*">>
    /\ overlap12 = TRUE
    /\ overlap21 = TRUE


(***************************************************************************)
(* Harness for testPolicy: a rule list built rule by rule, one test case   *)
(***************************************************************************)
MaxTestRules == 2

DirPattern == <<"C", ":", "\\", "*">>
FilePattern == <<"C", ":", "\\", "a">>
OtherFile == <<"D", ":", "\\", "a">>
\* The path of the default rule "Allow Administrators (All)"
BareWildcard == <<"*">>
SomePublisher == <<"M", "S">>
SomeHash == <<"a", "b">>

\* collection, conditions, exceptions of the rules the harness builds
TestRuleBodies ==
    { <<"Exe", <<PathCond(DirPattern)>>, <<>>>>,
      <<"Exe", <<PathCond(DirPattern)>>, <<PathCond(FilePattern)>>>>,
      <<"Exe", <<PathCond(DirPattern)>>,
               <<PublisherCond(SomePublisher, Null, Null, "*", "any", "")>>>>,
      <<"Exe", <<PathCond(FilePattern)>>, <<>>>>,
      <<"Exe", <<PublisherCond(SomePublisher, Null, Null, "*", "any", "")>>, <<>>>>,
      <<"Exe", <<HashCond(SomeHash, "SHA256", "a.exe", Absent)>>, <<>>>>,
      <<"Script", <<PathCond(DirPattern)>>, <<>>>>,
      <<"Exe", <<PathCond(BareWildcard)>>, <<>>>> }

TestRule(n, action, sid, body) ==
    [id |-> ToString(n), name |-> ToString(n), description |-> "",
     collection |-> body[1], action |-> action, user_or_group_sid |-> sid,
     conditions |-> body[2], exceptions |-> body[3],
     created_at |-> 0, updated_at |-> 0]

\* publisher and hash are optional in a test case
TestCases ==
    { [path |-> p, collection |-> c, userSid |-> u,
       publisher |-> ph[1], hash |-> ph[2]] :
        p \in {FilePattern, OtherFile}, c \in {Null, "Exe"},
        u \in {Null, "S-1-5-21-1"},
        ph \in { <<AbsentSeq, AbsentSeq>>,
                 <<SomePublisher, AbsentSeq>>,
                 <<SomePublisher, <<"0", "x", "A", "B">> >> } }

EvalInit ==
    /\ pc = "args"
    /\ testRules = <<>>
    /\ testCase \in TestCases
    /\ results = <<>>
    /\ matches = <<>>
    /\ PathIdle
    /\ XmlIdle
    /\ StoreIdle
    /\ DupIdle
    /\ ConflictIdle
    /\ PubIdle

AddTestRule ==
    /\ pc = "args"
    /\ Len(testRules) < MaxTestRules
    /\ \E action \in {"Allow", "Deny"}, sid \in {Null, Administrators},
          body \in TestRuleBodies :
          testRules' = Append(testRules,
                              TestRule(Len(testRules) + 1, action, sid, body))
    /\ UNCHANGED <<pc, testCase, results, matches, pathVars, xmlVars, storeVars, dupVars, conflictVars, pubVars>>

CallTestPolicy ==
    /\ pc = "args"
    /\ pc' = "done"
    /\ results' = testPolicy(testRules, testCase)
    /\ UNCHANGED <<testRules, testCase, matches, pathVars, xmlVars, storeVars, dupVars, conflictVars, pubVars>>

\* ruleMatches on each rule of the list
CallRuleMatches ==
    /\ pc = "args"
    /\ pc' = "matched"
    /\ matches' = [i \in 1..Len(testRules) |-> ruleMatches(testRules[i], testCase)]
    /\ UNCHANGED <<testRules, testCase, results, pathVars, xmlVars, storeVars,
                   dupVars, conflictVars, pubVars>>

EvalNext == AddTestRule \/ CallTestPolicy \/ CallRuleMatches

SpecEval == EvalInit /\ [][EvalNext]_vars

\* The rules of the test's collection, and those of them that match
Relevant(i) ==
    Falsy(testCase.collection) \/ testRules[i].collection = testCase.collection

Matches(i) == Relevant(i) /\ ruleMatches(testRules[i], testCase) = True

Returned == pc = "done" /\ results.error = ""

\* C2: if at least one Deny rule of the test's collection matches the test
\* case, testPolicy reports denied = true and a matching Deny rule appears in
\* matchingRules, wherever the Deny rule stands among the matching Allow rules.
DenyPrecedence ==
    (pc = "done" /\ \E i \in 1..Len(testRules) :
                        Matches(i) /\ testRules[i].action = "Deny")
    => /\ Returned
       /\ results.denied
       /\ \E i \in 1..Len(testRules), k \in 1..Len(results.matchingRules) :
             /\ Matches(i) /\ testRules[i].action = "Deny"
             /\ results.matchingRules[k].id = testRules[i].id
             /\ results.matchingRules[k].action = "Deny"

\* C3: result.allowed is true iff some Allow rule matches and no Deny rule
\* matches, so allowed and denied are never both true in one result.
AllowedIffAllowAndNoDeny ==
    Returned
    => /\ results.allowed <=>
             /\ \E i \in 1..Len(testRules) :
                   Matches(i) /\ testRules[i].action = "Allow"
             /\ ~\E i \in 1..Len(testRules) :
                   Matches(i) /\ testRules[i].action = "Deny"
       /\ ~(results.allowed /\ results.denied)

\* C4: for an empty rule list, and for any rule list in which no rule matches
\* the test case, testPolicy returns allowed = false, denied = false, an empty
\* matchingRules list and the default-deny reason.
DefaultDeny ==
    (pc = "done" /\ \A i \in 1..Len(testRules) : ~Matches(i))
    => /\ Returned
       /\ ~results.allowed
       /\ ~results.denied
       /\ results.matchingRules = <<>>
       /\ results.reason = DefaultDenyReason


(***************************************************************************)
(* Harness for the XML codec: a rule set built rule by rule, generated and *)
(* parsed back                                                             *)
(***************************************************************************)
MaxXmlRules == 2

HashA == <<"a", "b">>
HashB == <<"0", "x", "e", "f">>

\* As the rule form builds them: a publisher condition without product and
\* binary name, a hash condition without a file length
FormPublisher == PublisherCond(SomePublisher, Null, Null, "*", "any", "")
FormHash == HashCond(HashA, "SHA256", "a.exe", Absent)

\* As the parser builds them
ParsedPublisher == PublisherCond(SomePublisher, "P", "*", "1.0-*", "and_above", "1.0")
ParsedHash == HashCond(<<"C", "D">>, "SHA256", "b.exe", "12")

\* Publisher conditions with the other two kinds of version range
BelowPublisher == PublisherCond(SomePublisher, "P", "*", "*-2.0", "and_below", "2.0")
ExactPublisher == PublisherCond(SomePublisher, "P", "*", "3.0", "exactly", "3.0")

\* conditions (all of one kind) and exceptions of the rules the harness builds
XmlRuleBodies ==
    { <<<<PathCond(DirPattern)>>, <<>>>>,
      <<<<PathCond(DirPattern), PathCond(FilePattern)>>, <<PathCond(FilePattern)>>>>,
      <<<<PathCond(DirPattern)>>, <<ParsedHash, PathCond(FilePattern)>>>>,
      <<<<FormPublisher>>, <<>>>>,
      <<<<ParsedPublisher>>, <<ParsedPublisher>>>>,
      <<<<BelowPublisher, ExactPublisher>>,
        <<BelowPublisher, ExactPublisher, FormPublisher>>>>,
      <<<<FormHash>>, <<>>>>,
      <<<<ParsedHash, HashCond(HashB, "SHA256", "c.exe", "7")>>, <<ParsedHash>>>> }

XmlRule(n, collection, action, sid, body) ==
    [id |-> ToString(n), name |-> ToString(n), description |-> "",
     collection |-> collection, action |-> action, user_or_group_sid |-> sid,
     conditions |-> body[1], exceptions |-> body[2],
     created_at |-> 0, updated_at |-> 0]

XmlInit ==
    /\ pc = "args"
    /\ xmlRules = <<>>
    /\ xmlDoc = <<>>
    /\ parsed = <<>>
    /\ PathIdle
    /\ EvalIdle
    /\ StoreIdle
    /\ DupIdle
    /\ ConflictIdle
    /\ PubIdle

AddXmlRule ==
    /\ pc = "args"
    /\ Len(xmlRules) < MaxXmlRules
    /\ \E collection \in {"Exe", "Script"}, action \in {"Allow", "Deny"},
          sid \in {Null, Administrators}, body \in XmlRuleBodies :
          xmlRules' = Append(xmlRules,
                             XmlRule(Len(xmlRules) + 1, collection, action, sid, body))
    /\ UNCHANGED <<pc, xmlDoc, parsed, pathVars, evalVars, storeVars, dupVars, conflictVars, pubVars>>

CallGeneratePolicy ==
    /\ pc = "args"
    /\ pc' = "generated"
    /\ xmlDoc' = generatePolicy(xmlRules, NoModes, "1")
    /\ UNCHANGED <<xmlRules, parsed, pathVars, evalVars, storeVars, dupVars, conflictVars, pubVars>>

CallParseXML ==
    /\ pc = "generated"
    /\ pc' = "parsed"
    /\ parsed' = parseXML(xmlDoc)
    /\ UNCHANGED <<xmlRules, xmlDoc, pathVars, evalVars, storeVars, dupVars, conflictVars, pubVars>>

XmlNext == AddXmlRule \/ CallGeneratePolicy \/ CallParseXML

SpecXml == XmlInit /\ [][XmlNext]_vars

\* The rule set in the order of the document: by collection, and in the
\* order of the rule set within a collection
RECURSIVE ByCollection(_, _)
ByCollection(rules, i) ==
    IF i > Len(Collections) THEN <<>>
    ELSE LET InType(r) == r.collection = Collections[i]
         IN  SelectSeq(rules, InType) \o ByCollection(rules, i + 1)

\* The rule elements of a document, in document order
RECURSIVE RuleElements(_, _)
RuleElements(collections, i) ==
    IF i > Len(collections) THEN <<>>
    ELSE collections[i].children \o RuleElements(collections, i + 1)

CanonicalHash(h) == toUpperCase(stripHexPrefix(h))

IsAnyRange(c) == c.version_range_type = "any"

\* Two conditions equal in all their fields, up to the canonical form of the
\* hash and an empty version range
SameCondition(c, d) ==
    /\ [c EXCEPT !.file_hash = <<>>, !.version = "", !.version_range_type = "",
                 !.version_value = ""]
       = [d EXCEPT !.file_hash = <<>>, !.version = "", !.version_range_type = "",
                   !.version_value = ""]
    /\ CanonicalHash(c.file_hash) = CanonicalHash(d.file_hash)
    /\ \/ IsAnyRange(c) /\ IsAnyRange(d)
       \/ /\ c.version = d.version
          /\ c.version_range_type = d.version_range_type
          /\ c.version_value = d.version_value

SameConditions(cs, ds) ==
    /\ Len(cs) = Len(ds)
    /\ \A i \in 1..Len(cs) : SameCondition(cs[i], ds[i])

Principal(sid) == IF Falsy(sid) THEN Everyone ELSE sid

\* Two rules equal up to id; an unset principal is the Everyone principal
SameRule(r, q) ==
    /\ r.collection = q.collection
    /\ r.action = q.action
    /\ Principal(r.user_or_group_sid) = Principal(q.user_or_group_sid)
    /\ r.name = q.name
    /\ r.description = q.description
    /\ SameConditions(r.conditions, q.conditions)
    /\ SameConditions(r.exceptions, q.exceptions)

\* C5: for every rule set R in which each rule's conditions are all of one
\* kind, parseXML(generatePolicy(R)) yields a rule set equal to R rule by rule
\* (collection, action, principal, name, description, conditions and
\* exceptions with all their fields), up to id, hash canonicalization and
\* omission of empty version ranges.  The rules are compared in the order of
\* the document, collection by collection.
XmlRoundTrip ==
    pc = "parsed"
    => /\ parsed.error = ""
       /\ Len(parsed.rules) = Len(xmlRules)
       /\ \A i \in 1..Len(parsed.rules) :
             SameRule(parsed.rules[i], ByCollection(xmlRules, 1)[i])

\* C6: a rule whose N >= 1 conditions are all FileHashCondition is generated
\* as a FileHashRule with exactly one FileHashCondition element holding N
\* FileHash children in condition order, and parsing that XML yields exactly
\* N separate FileHashCondition entries in the same order.
HashMergeUnmerge ==
    pc = "parsed"
    => LET rules == ByCollection(xmlRules, 1)
           elems == RuleElements(xmlDoc.collections, 1)
       IN  \A i \in 1..Len(rules) :
              LET conds == rules[i].conditions
                  N == Len(conds)
              IN  (N >= 1 /\ \A k \in 1..N : conds[k].type = "FileHashCondition")
                  => /\ elems[i].tag = "FileHashRule"
                     /\ Len(elems[i].Conditions) = 1
                     /\ elems[i].Conditions[1].tag = "FileHashCondition"
                     /\ Len(elems[i].Conditions[1].FileHash) = N
                     /\ \A k \in 1..N :
                           CanonicalHash(elems[i].Conditions[1].FileHash[k].Data)
                             = CanonicalHash(conds[k].file_hash)
                     /\ Len(parsed.rules[i].conditions) = N
                     /\ \A k \in 1..N :
                           /\ parsed.rules[i].conditions[k].type = "FileHashCondition"
                           /\ CanonicalHash(parsed.rules[i].conditions[k].file_hash)
                                = CanonicalHash(conds[k].file_hash)

\* A rule with two hash conditions was generated and parsed back
HashMergeUnmergeWitness ==
    /\ pc = "parsed"
    /\ \E i \in 1..Len(xmlRules) :
          /\ Len(xmlRules[i].conditions) = 2
          /\ xmlRules[i].conditions[1].type = "FileHashCondition"
          /\ xmlRules[i].conditions[2].type = "FileHashCondition"
    /\ \E i \in 1..Len(parsed.rules) :
          /\ Len(parsed.rules[i].conditions) = 2
          /\ parsed.rules[i].conditions[1].file_hash = <<"C", "D">>
          /\ CanonicalHash(parsed.rules[i].conditions[2].file_hash) = <<"E", "F">>

(***************************************************************************)
(* The rule store: the calls the pages make on storage and on importXML    *)
(***************************************************************************)
MaxOps == 3

\* Rule data as the rule form submits it: RuleA and RuleAEveryone differ in
\* name and in the spelling of the principal "everyone"
RuleA ==
    [name |-> "a", description |-> "", collection |-> "Exe", action |-> "Allow",
     user_or_group_sid |-> "", conditions |-> <<PathCond(DirPattern)>>,
     exceptions |-> <<>>]

RuleAEveryone == [RuleA EXCEPT !.name = "a2", !.user_or_group_sid = Everyone]

RuleB ==
    [name |-> "b", description |-> "d", collection |-> "Script", action |-> "Deny",
     user_or_group_sid |-> Administrators, conditions |-> <<FormPublisher>>,
     exceptions |-> <<PathCond(FilePattern)>>]

CreateInputs == <<RuleA, RuleAEveryone, RuleB>>

FormFields ==
    {"name", "description", "collection", "action", "user_or_group_sid",
     "conditions", "exceptions"}

\* The form submits every field; a caller may also pass one field alone
UpdateInputs ==
    <<[fields |-> FormFields, data |-> RuleA],
      [fields |-> {"action"}, data |-> RuleB]>>

\* A rule as another tool's document may hold it
DocRule(name, conditions) ==
    [id |-> "doc-" \o name, name |-> name, description |-> "",
     collection |-> "Exe", action |-> "Allow", user_or_group_sid |-> Everyone,
     conditions |-> conditions, exceptions |-> <<>>,
     created_at |-> 0, updated_at |-> 0]

DocModes == [NoModes EXCEPT !["Exe"] = "Enabled"]

Malformed ==
    [wellFormed |-> FALSE, root |-> "", Version |-> Absent, collections |-> <<>>]

ImportDocs ==
    <<Malformed,
      [generatePolicy(<<DocRule("a", <<PathCond(DirPattern)>>)>>, DocModes, "2")
         EXCEPT !.root = "Policy"],
      generatePolicy(<<>>, DocModes, "2"),
      generatePolicy(<<DocRule("a", <<PathCond(DirPattern)>>),
                       DocRule("a2", <<PathCond(DirPattern)>>)>>, DocModes, "2"),
      generatePolicy(<<DocRule("", <<PathCond(FilePattern)>>),
                       DocRule("c", <<PathCond(OtherFile)>>)>>, DocModes, "2"),
      generatePolicy(<<DocRule("e", <<>>)>>, DocModes, "2"),
      generatePolicy(<<[DocRule("s", <<PathCond(DirPattern)>>)
                          EXCEPT !.collection = "Script"]>>,
                     [NoModes EXCEPT !["Script"] = "Enabled"], "2")>>

\* The writes of one importXML call at which localStorage may throw
FailingWrites == {{}, {1}, {2}, {3}}

Store ==
    [rules |-> ruleStore, enforcementModes |-> modeStore,
     policyVersion |-> versionStore, nextId |-> nextId]

Before ==
    [rules |-> ruleStore, enforcementModes |-> modeStore,
     policyVersion |-> versionStore]

StoredIds == {ruleStore[i].id : i \in 1..Len(ruleStore)}

Called(op, input, id, failing, threw, error, ret) ==
    /\ ops' = ops + 1
    /\ prev' = last
    /\ last' = [NoCall EXCEPT !.op = op, !.input = input, !.id = id,
                              !.failing = failing, !.threw = threw,
                              !.error = error, !.ret = ret, !.before = Before]

StoreInit ==
    /\ pc = "store"
    /\ StoreIdle
    /\ DupIdle
    /\ ConflictIdle
    /\ PubIdle
    /\ PathIdle
    /\ EvalIdle
    /\ XmlIdle

\* One call of storage.createRule; saves: whether localStorage may throw
CreateRuleCall(maxOps, saves) ==
    /\ ops < maxOps
    /\ \E input \in 1..Len(CreateInputs), saveOk \in saves :
          LET r == createRule(ruleStore, CreateInputs[input], ToString(nextId),
                              ops + 1, saveOk)
          IN  /\ ruleStore' = r.rules
              /\ nextId' = IF r.inserted THEN nextId + 1 ELSE nextId
              /\ Called("createRule", input, "", IF saveOk THEN {} ELSE {1},
                        r.threw, IF r.threw THEN "save" ELSE "", r.rule.id)
    /\ UNCHANGED <<pc, modeStore, versionStore, pathVars, evalVars, xmlVars, dupVars, conflictVars, pubVars>>

UpdateRuleCall(maxOps, ids, inputs, saves) ==
    /\ ops < maxOps
    /\ \E ruleId \in ids, input \in inputs, saveOk \in saves :
          LET r == updateRule(ruleStore, ruleId, UpdateInputs[input].fields,
                              UpdateInputs[input].data, ops + 1, saveOk)
          IN  /\ ruleStore' = r.rules
              /\ Called("updateRule", input, ruleId, IF saveOk THEN {} ELSE {1},
                        r.threw, r.error, r.rule.id)
    /\ UNCHANGED <<pc, modeStore, versionStore, nextId, pathVars, evalVars, xmlVars, dupVars, conflictVars, pubVars>>

DeleteRuleCall(maxOps, ids, saves) ==
    /\ ops < maxOps
    /\ \E ruleId \in ids, saveOk \in saves :
          LET r == deleteRule(ruleStore, ruleId, saveOk)
          IN  /\ ruleStore' = r.rules
              /\ Called("deleteRule", 0, ruleId, IF saveOk THEN {} ELSE {1},
                        r.threw, r.error, "")
    /\ UNCHANGED <<pc, modeStore, versionStore, nextId, pathVars, evalVars, xmlVars, dupVars, conflictVars, pubVars>>

CallCreateRule == CreateRuleCall(MaxOps, BOOLEAN)

CallUpdateRule ==
    UpdateRuleCall(MaxOps, StoredIds \cup {"missing"}, 1..Len(UpdateInputs), BOOLEAN)

CallDeleteRule == DeleteRuleCall(MaxOps, StoredIds \cup {"missing"}, BOOLEAN)

CallDeleteAllRules ==
    /\ ops < MaxOps
    /\ \E collection \in {Null, "Exe"}, saveOk \in BOOLEAN :
          LET r == deleteAllRules(ruleStore, collection, saveOk)
          IN  /\ ruleStore' = r.rules
              /\ Called("deleteAllRules", 0, collection,
                        IF saveOk THEN {} ELSE {1}, r.threw,
                        IF r.threw THEN "save" ELSE "", "")
    /\ UNCHANGED <<pc, modeStore, versionStore, nextId, pathVars, evalVars, xmlVars, dupVars, conflictVars, pubVars>>

CallGetRules ==
    /\ ops < MaxOps
    /\ \E collection \in {Null, "Exe", "Script"} :
          /\ ops' = ops + 1
          /\ prev' = last
          /\ last' = [NoCall EXCEPT !.op = "getRules", !.id = collection,
                                    !.list = getRules(ruleStore, collection),
                                    !.before = Before]
    /\ UNCHANGED <<pc, ruleStore, modeStore, versionStore, nextId,
                   pathVars, evalVars, xmlVars, dupVars, conflictVars, pubVars>>

CallGetRule ==
    /\ ops < MaxOps
    /\ \E ruleId \in StoredIds \cup {"missing"} :
          LET r == getRule(ruleStore, ruleId)
          IN  Called("getRule", 0, ruleId, {}, FALSE, "",
                     IF r.null THEN Null ELSE r.rule.id)
    /\ UNCHANGED <<pc, ruleStore, modeStore, versionStore, nextId,
                   pathVars, evalVars, xmlVars, dupVars, conflictVars, pubVars>>

CallImportXML ==
    /\ ops < MaxOps
    /\ \E input \in 1..Len(ImportDocs), failing \in FailingWrites :
          LET r == importXML(Store, ImportDocs[input], ops + 1, failing)
          IN  /\ ruleStore' = r.store.rules
              /\ modeStore' = r.store.enforcementModes
              /\ versionStore' = r.store.policyVersion
              /\ nextId' = r.store.nextId
              /\ ops' = ops + 1
              /\ prev' = last
              /\ last' = [NoCall EXCEPT
                            !.op = "importXML", !.input = input,
                            !.failing = failing, !.threw = r.threw,
                            !.validatedRules = r.validatedRules,
                            !.skippedDuplicates = r.skippedDuplicates,
                            !.before = Before]
    /\ UNCHANGED <<pc, pathVars, evalVars, xmlVars, dupVars, conflictVars, pubVars>>

Next ==
    \/ CallCreateRule
    \/ CallUpdateRule
    \/ CallDeleteRule
    \/ CallDeleteAllRules
    \/ CallImportXML
    \/ CallGetRules
    \/ CallGetRule

Spec == StoreInit /\ [][Next]_vars

(***************************************************************************)
(* The rule pages alone, with a localStorage that takes every write: the   *)
(* rule form submits every field, for a new rule or for a listed one, and  *)
(* the list deletes a listed rule.                                         *)
(***************************************************************************)
MaxFormOps == 5

SubmitNewRule == CreateRuleCall(MaxFormOps, {TRUE})

SubmitEditedRule == UpdateRuleCall(MaxFormOps, StoredIds, {1}, {TRUE})

DeleteListedRule == DeleteRuleCall(MaxFormOps, StoredIds, {TRUE})

FormNext == SubmitNewRule \/ SubmitEditedRule \/ DeleteListedRule

SpecForm == StoreInit /\ [][FormNext]_vars

\* The stored rules that are duplicates of the rule data X
Equivalents(stored, X) ==
    {i \in 1..Len(stored) :
        isDuplicateRule([X EXCEPT !.user_or_group_sid = AttrOr(@, Null)], stored[i])}

\* create(X) returned and create(X) was then called again
CreatedTwice ==
    /\ prev.op = "createRule"
    /\ ~prev.threw
    /\ last.op = "createRule"
    /\ last.input = prev.input

\* C1: after create(X) and create(X) again the store holds exactly one rule
\* equivalent to X, the second call has inserted nothing and it returns the
\* rule with the id the first call returned.
CreateIdempotent ==
    CreatedTwice
    => /\ Cardinality(Equivalents(ruleStore, CreateInputs[last.input])) = 1
       /\ ruleStore = last.before.rules
       /\ ~last.threw
       /\ last.ret = prev.ret

\* C1, for the stores that held at most one rule equivalent to X before the
\* first call; whatever the store held, the second call inserts nothing and
\* returns the rule with the id the first call returned.
CreateIdempotentAmended ==
    CreatedTwice
    => /\ ruleStore = last.before.rules
       /\ ~last.threw
       /\ last.ret = prev.ret
       /\ Cardinality(Equivalents(prev.before.rules, CreateInputs[last.input])) <= 1
          => Cardinality(Equivalents(ruleStore, CreateInputs[last.input])) = 1

\* The first call has inserted the second rule of the store, the second call
\* returns it
CreateIdempotentWitness ==
    /\ CreatedTwice
    /\ Len(prev.before.rules) = 1
    /\ Len(ruleStore) = 2
    /\ last.ret = ruleStore[2].id
    /\ Cardinality(Equivalents(ruleStore, CreateInputs[last.input])) = 1

StoreUnchanged ==
    /\ ruleStore = last.before.rules
    /\ modeStore = last.before.enforcementModes
    /\ versionStore = last.before.policyVersion

ImportedDoc == ImportDocs[last.input]

\* C8: when the document is not well-formed or its root is neither
\* AppLockerPolicy nor RuleCollection, importXML throws and the stored rules,
\* the enforcement modes and the policy version are as before the call.
ParseErrorAbortsImport ==
    (last.op = "importXML"
       /\ (~ImportedDoc.wellFormed
           \/ ImportedDoc.root \notin {"AppLockerPolicy", "RuleCollection"}))
    => (last.threw /\ StoreUnchanged)

ParseErrorAbortsImportWitness ==
    /\ last.op = "importXML"
    /\ ImportedDoc.wellFormed
    /\ ImportedDoc.root \notin {"AppLockerPolicy", "RuleCollection"}
    /\ ImportedDoc.collections # <<>>
    /\ last.threw
    /\ ruleStore # <<>>
    /\ StoreUnchanged

\* C9: whenever importXML throws, the stored rules, the enforcement modes and
\* the policy version are as before the call.
NoMutationOnImportFailure ==
    (last.op = "importXML" /\ last.threw) => StoreUnchanged

\* The rules the last call added to the store
AddedRules ==
    {ruleStore[i] : i \in 1..Len(ruleStore)}
        \ {last.before.rules[i] : i \in 1..Len(last.before.rules)}

\* C10: a rule of the document that fails the required-field checks is not
\* added to the store, and every other rule of the document is in the store,
\* or an equivalent of it, after an import whose writes all succeed.
InvalidRuleSkippedOnImport ==
    (last.op = "importXML" /\ ~last.threw)
    => /\ \A r \in AddedRules : validateRuleErrors(r) = {}
       /\ last.failing = {}
          => \A i \in 1..Len(parseXML(ImportedDoc).rules) :
                LET rule == parseXML(ImportedDoc).rules[i]
                IN  validateRuleErrors(rule) = {}
                    => findDuplicateRule(rule, ruleStore) # 0

\* C11: for every importXML call that returns, the number of rules reported
\* as imported is the number of rules the call added to the store, and the
\* rules reported as imported and as skipped duplicates are together the
\* parsed rules that were not lost to a failing write.
ImportAccounting ==
    (last.op = "importXML" /\ ~last.threw)
    => /\ Len(last.validatedRules) = Len(ruleStore) - Len(last.before.rules)
       /\ Len(last.validatedRules) + last.skippedDuplicates
            <= Len(parseXML(ImportedDoc).rules)

\* importXML returned with every write done, and the same document is
\* imported again, every write being possible
ImportedTwice ==
    /\ prev.op = "importXML"
    /\ ~prev.threw
    /\ prev.failing = {}
    /\ last.op = "importXML"
    /\ last.input = prev.input
    /\ last.failing = {}

\* The rules the last importXML appended to the store
AppendedRules == SubSeq(ruleStore, Len(last.before.rules) + 1, Len(ruleStore))

\* C12: importing the same document a second time adds no rule, succeeds
\* and reports every rule of the document as a skipped duplicate; rules
\* duplicated inside one document are stored once.
ImportIdempotent ==
    /\ ImportedTwice
       => /\ ~last.threw
          /\ ruleStore = last.before.rules
          /\ last.validatedRules = <<>>
          /\ last.skippedDuplicates = Len(parseXML(ImportedDoc).rules)
    /\ (last.op = "importXML" /\ ~last.threw /\ last.failing = {})
       => \A i, k \in 1..Len(AppendedRules) :
             isDuplicateRule(AppendedRules[i], AppendedRules[k]) => i = k

\* The document with two equivalent rules, imported twice into an empty store
ImportIdempotentWitness ==
    /\ ImportedTwice
    /\ Len(parseXML(ImportedDoc).rules) = 2
    /\ isDuplicateRule(parseXML(ImportedDoc).rules[1], parseXML(ImportedDoc).rules[2])
    /\ Len(ruleStore) = 1
    /\ last.skippedDuplicates = 2

\* ---------------------------------------------------------------------
\* isDuplicateRule applied to two rules

MaxDupConditions == 2
MaxDupExceptions == 2

\* The spellings of a principal the rule form and an imported document give
DupSids ==
    {Absent, Null, "", Everyone, " ", " S-1-1-0", Administrators, " S-1-5-32-544"}

DupConditionLists ==
    UNION {[1..n -> {PathCond(DirPattern), PathCond(FilePattern)}]
             : n \in 0..MaxDupConditions}

DupExceptionLists ==
    UNION {[1..n -> {PathCond(OtherFile), FormPublisher}]
             : n \in 0..MaxDupExceptions}

DupRule(id, collection, action, sid, conditions, exceptions) ==
    [id |-> id, name |-> id, description |-> id,
     collection |-> collection, action |-> action, user_or_group_sid |-> sid,
     conditions |-> conditions, exceptions |-> exceptions,
     created_at |-> IF id = "1" THEN 1 ELSE 2,
     updated_at |-> IF id = "1" THEN 1 ELSE 3]

DupInit ==
    /\ pc = "args"
    /\ \E sid \in {"", " ", Administrators}, conditions \in DupConditionLists,
          exceptions \in {<<>>, <<PathCond(OtherFile), FormPublisher>>} :
          dupRule1 = DupRule("1", "Exe", "Allow", sid, conditions, exceptions)
    /\ dupRule2 = NoRule
    /\ isDup = FALSE
    /\ PathIdle
    /\ EvalIdle
    /\ XmlIdle
    /\ StoreIdle
    /\ ConflictIdle
    /\ PubIdle

ChooseRule2 ==
    /\ pc = "args"
    /\ \E collection \in {"Exe", "Script"}, action \in {"Allow", "Deny"},
          sid \in DupSids, conditions \in DupConditionLists,
          exceptions \in DupExceptionLists :
          dupRule2' = DupRule("2", collection, action, sid, conditions, exceptions)
    /\ pc' = "chosen"
    /\ UNCHANGED <<dupRule1, isDup, pathVars, evalVars, xmlVars, storeVars, conflictVars, pubVars>>

CallIsDuplicateRule ==
    /\ pc = "chosen"
    /\ isDup' = isDuplicateRule(dupRule1, dupRule2)
    /\ pc' = "done"
    /\ UNCHANGED <<dupRule1, dupRule2, pathVars, evalVars, xmlVars, storeVars, conflictVars, pubVars>>

DupNext == ChooseRule2 \/ CallIsDuplicateRule

SpecDup == DupInit /\ [][DupNext]_vars

\* A principal that is missing, empty or the Everyone SID
Unset(sid) == sid \in {Absent, Null, "", Everyone}

\* A principal that is unset or is only white space
UnsetOrBlank(sid) == Unset(sid) \/ TrimStr(sid) = ""

\* Two lists hold the same entries the same number of times
SameMultiset(cs, ds) ==
    /\ Len(cs) = Len(ds)
    /\ \E p \in Permutations(1..Len(cs)) : \A i \in 1..Len(cs) : cs[i] = ds[p[i]]

\* The two rules agree in everything but the principal
SameButPrincipal ==
    /\ dupRule1.collection = dupRule2.collection
    /\ dupRule1.action = dupRule2.action
    /\ SameMultiset(dupRule1.conditions, dupRule2.conditions)
    /\ SameMultiset(dupRule1.exceptions, dupRule2.exceptions)

\* C13 as stated: two rules are duplicates exactly when they have the same
\* collection, the same action, the same principal (a missing, an empty and
\* the S-1-1-0 principal being one principal) and the same multisets of
\* conditions and of exceptions.
DuplicateRelation ==
    pc = "done"
    => (isDup <=>
          /\ SameButPrincipal
          /\ \/ Unset(dupRule1.user_or_group_sid) /\ Unset(dupRule2.user_or_group_sid)
             \/ /\ ~Unset(dupRule1.user_or_group_sid)
                /\ dupRule1.user_or_group_sid = dupRule2.user_or_group_sid)

\* C13 amended: the principals are compared with the white space around
\* them removed, a principal of white space only being one more spelling of
\* the unset principal.
DuplicateRelationTrimmed ==
    pc = "done"
    => (isDup <=>
          /\ SameButPrincipal
          /\ \/ /\ UnsetOrBlank(dupRule1.user_or_group_sid)
                /\ UnsetOrBlank(dupRule2.user_or_group_sid)
             \/ /\ ~UnsetOrBlank(dupRule1.user_or_group_sid)
                /\ ~UnsetOrBlank(dupRule2.user_or_group_sid)
                /\ TrimStr(dupRule1.user_or_group_sid)
                     = TrimStr(dupRule2.user_or_group_sid))

\* Two duplicates that differ in id, name, description, timestamps, the
\* order of their conditions and of their exceptions and the spelling of
\* the unset principal
DuplicateRelationWitness ==
    /\ pc = "done"
    /\ isDup
    /\ dupRule1.id # dupRule2.id
    /\ dupRule1.updated_at # dupRule2.updated_at
    /\ Len(dupRule1.conditions) = 2
    /\ dupRule1.conditions # dupRule2.conditions
    /\ Len(dupRule1.exceptions) = 2
    /\ dupRule1.exceptions # dupRule2.exceptions
    /\ dupRule1.user_or_group_sid = ""
    /\ dupRule2.user_or_group_sid = Everyone

\* ---------------------------------------------------------------------
\* The last call was updateRule, deleteRule or getRule
ById == last.op \in {"updateRule", "deleteRule", "getRule"}

\* The id of the last call was the id of a stored rule when it was made
IdWasStored ==
    \E i \in 1..Len(last.before.rules) : last.before.rules[i].id = last.id

\* C14: updateRule and deleteRule with an id that is not in the store throw
\* 'Rule not found' and getRule returns null, the store being as before the
\* call; with an id that is in the store no call has that outcome.
NotFoundChangesNothing ==
    ById
    => /\ ~IdWasStored
          => /\ StoreUnchanged
             /\ last.op \in {"updateRule", "deleteRule"}
                  => last.threw /\ last.error = "Rule not found"
             /\ last.op = "getRule" => ~last.threw /\ last.ret = Null
       /\ IdWasStored
          => /\ last.error # "Rule not found"
             /\ last.op = "getRule" => last.ret = last.id

\* A store that holds a rule, where an update with an unknown id and then
\* a get with an unknown id were answered not-found
NotFoundChangesNothingWitness ==
    /\ Len(ruleStore) > 0
    /\ prev.op = "updateRule"
    /\ prev.error = "Rule not found"
    /\ last.op = "getRule"
    /\ last.ret = Null
    /\ ~IdWasStored

\* ---------------------------------------------------------------------
\* The same stored rule, before and after a call
SameStoredRule(a, b) == a.id = b.id /\ a.created_at = b.created_at

Increasing(f, k) == \A i, j \in 1..k : i < j => f[i] < f[j]

\* `new` is `old` with some rules taken out, the others kept in their order,
\* and the rules that were not in `old` behind them
KeepsOrder(old, new) ==
    \E k \in 0..Len(new) :
       /\ \E f \in [1..k -> 1..Len(old)] :
             /\ Increasing(f, k)
             /\ \A i \in 1..k : SameStoredRule(new[i], old[f[i]])
       /\ \A i \in (k + 1)..Len(new) :
             \A j \in 1..Len(old) : ~SameStoredRule(new[i], old[j])

\* `list` is the subsequence of `all` of the rules whose collection is c
SubsequenceOf(list, all, c) ==
    \E f \in [1..Len(list) -> 1..Len(all)] :
       /\ Increasing(f, Len(list))
       /\ \A i \in 1..Len(list) : list[i] = all[f[i]]
       /\ {f[i] : i \in 1..Len(list)}
            = {j \in 1..Len(all) : all[j].collection = c}

\* C15: every call leaves the stored rules that survive it in the order they
\* had and puts the rules it inserts behind them; getRules() returns the
\* stored rules in that order, and getRules(c) the subsequence of them whose
\* collection is c.
ListOrder ==
    /\ [][KeepsOrder(ruleStore, ruleStore')]_vars
    /\ [](last.op = "getRules"
            => IF last.id = Null THEN last.list = ruleStore
               ELSE SubsequenceOf(last.list, ruleStore, last.id))

\* Two rules were created, and the rules of the collection of the second
\* are listed
ListOrderWitness ==
    /\ last.op = "getRules"
    /\ last.id = "Script"
    /\ prev.op = "createRule"
    /\ Len(ruleStore) = 2
    /\ ruleStore[1].created_at < ruleStore[2].created_at
    /\ ruleStore[1].collection = "Exe"
    /\ last.list = <<ruleStore[2]>>

\* ---------------------------------------------------------------------
\* The position the rule of the last call had in the store
UpdatedIndex ==
    CHOOSE i \in 1..Len(last.before.rules) : last.before.rules[i].id = last.id

\* C16: updateRule on a stored rule leaves the enforcement modes, the policy
\* version and every other stored rule as they were, and keeps the id,
\* created_at and every field that was not supplied of the rule itself; when
\* it returns, the supplied fields have the supplied values and updated_at
\* is the time of the call, and when it throws the rule is as it was.
UpdateFrame ==
    (last.op = "updateRule" /\ IdWasStored)
    => LET old == last.before.rules[UpdatedIndex]
           supplied == UpdateInputs[last.input]
       IN  /\ modeStore = last.before.enforcementModes
           /\ versionStore = last.before.policyVersion
           /\ Len(ruleStore) = Len(last.before.rules)
           /\ \A i \in 1..Len(ruleStore) :
                 i # UpdatedIndex => ruleStore[i] = last.before.rules[i]
           /\ LET new == ruleStore[UpdatedIndex]
              IN  /\ new.id = old.id
                  /\ new.created_at = old.created_at
                  /\ \A f \in FormFields \ supplied.fields : new[f] = old[f]
                  /\ IF last.threw THEN new = old
                     ELSE /\ \A f \in supplied.fields : new[f] = supplied.data[f]
                          /\ new.updated_at = ops

\* The action alone of the second of two stored rules was updated
UpdateFrameWitness ==
    /\ last.op = "updateRule"
    /\ ~last.threw
    /\ UpdateInputs[last.input].fields = {"action"}
    /\ Len(ruleStore) = 2
    /\ last.id = ruleStore[2].id
    /\ ruleStore[2].action # last.before.rules[2].action
    /\ ruleStore[2].name = last.before.rules[2].name
    /\ ruleStore[2].name # UpdateInputs[last.input].data.name

(***************************************************************************)
(* ruleValidator: detectConflicts                                          *)
(***************************************************************************)
NoOverlap == <<>>

\* The overlap of one condition pair: its details, NoOverlap, or a throw
\* where substring is called on a hash that is not a string
ConditionOverlap(cond1, cond2) ==
    IF cond1.type = "FilePathCondition" /\ cond2.type = "FilePathCondition"
    THEN IF pathsOverlap(cond1.path, cond2.path)
         THEN [threw |-> FALSE, details |-> <<"Path overlap", cond1.path, cond2.path>>]
         ELSE [threw |-> FALSE, details |-> NoOverlap]
    ELSE IF cond1.type = "FilePublisherCondition" /\ cond2.type = "FilePublisherCondition"
    THEN IF \/ cond1.publisher_name = cond2.publisher_name
            \/ cond1.publisher_name = <<"*">>
            \/ cond2.publisher_name = <<"*">>
         THEN [threw |-> FALSE,
               details |-> <<"Publisher overlap", cond1.publisher_name,
                             cond2.publisher_name>>]
         ELSE [threw |-> FALSE, details |-> NoOverlap]
    ELSE IF cond1.type = "FileHashCondition" /\ cond2.type = "FileHashCondition"
    THEN IF cond1.file_hash = cond2.file_hash
         THEN IF cond1.file_hash \in {NullSeq, AbsentSeq}
              THEN [threw |-> TRUE, details |-> NoOverlap]
              ELSE [threw |-> FALSE,
                    details |-> <<"Hash match",
                                  SubSeq(cond1.file_hash, 1,
                                         IF Len(cond1.file_hash) < 16
                                         THEN Len(cond1.file_hash) ELSE 16)>>]
         ELSE [threw |-> FALSE, details |-> NoOverlap]
    ELSE [threw |-> FALSE, details |-> NoOverlap]

\* The two loops of checkRuleOverlap, from the pair (i, k) on
RECURSIVE OverlapFrom(_, _, _, _)
OverlapFrom(conditions1, conditions2, i, k) ==
    IF i > Len(conditions1) THEN [threw |-> FALSE, details |-> NoOverlap]
    ELSE IF k > Len(conditions2) THEN OverlapFrom(conditions1, conditions2, i + 1, 1)
    ELSE LET o == ConditionOverlap(conditions1[i], conditions2[k])
         IN  IF o.threw \/ o.details # NoOverlap THEN o
             ELSE OverlapFrom(conditions1, conditions2, i, k + 1)

\* checkRuleOverlap that looks at the first condition of each rule only
checkFirstConditions(rule1, rule2) ==
    IF rule1.conditions = <<>> \/ rule2.conditions = <<>>
    THEN [threw |-> FALSE, details |-> NoOverlap]
    ELSE ConditionOverlap(rule1.conditions[1], rule2.conditions[1])

checkRuleOverlap(rule1, rule2) ==
    OverlapFrom(rule1.conditions, rule2.conditions, 1, 1)

\* The collections of the rules, each once, in the order they first occur
RECURSIVE CollectionKeys(_, _)
CollectionKeys(rules, seen) ==
    IF rules = <<>> THEN seen
    ELSE CollectionKeys(Tail(rules),
                        IF \E i \in 1..Len(seen) : seen[i] = Head(rules).collection
                        THEN seen ELSE Append(seen, Head(rules).collection))

\* The loops over the pairs (i, j), i < j, of the rules of one collection
RECURSIVE ConflictsFrom(_, _, _, _)
ConflictsFrom(collectionRules, i, j, acc) ==
    IF acc.threw \/ i > Len(collectionRules) THEN acc
    ELSE IF j > Len(collectionRules)
    THEN ConflictsFrom(collectionRules, i + 1, i + 2, acc)
    ELSE LET rule1 == collectionRules[i]
             rule2 == collectionRules[j]
             sid1 == AttrOr(rule1.user_or_group_sid, Everyone)
             sid2 == AttrOr(rule2.user_or_group_sid, Everyone)
         IN  IF /\ rule1.action # rule2.action
                /\ (sid1 = sid2 \/ sid1 = Everyone \/ sid2 = Everyone)
             THEN LET overlap == checkRuleOverlap(rule1, rule2)
                  IN  IF overlap.threw
                      THEN [threw |-> TRUE, conflicts |-> acc.conflicts]
                      ELSE IF overlap.details # NoOverlap
                      THEN ConflictsFrom(collectionRules, i, j + 1,
                              [acc EXCEPT !.conflicts =
                                  Append(@, [rule1 |-> [id |-> rule1.id,
                                                        name |-> rule1.name,
                                                        action |-> rule1.action],
                                             rule2 |-> [id |-> rule2.id,
                                                        name |-> rule2.name,
                                                        action |-> rule2.action],
                                             collection |-> rule1.collection,
                                             details |-> overlap.details])])
                      ELSE ConflictsFrom(collectionRules, i, j + 1, acc)
             ELSE ConflictsFrom(collectionRules, i, j + 1, acc)

RECURSIVE ConflictsOfCollections(_, _, _)
ConflictsOfCollections(rules, keys, acc) ==
    IF acc.threw \/ keys = <<>> THEN acc
    ELSE LET InCollection(rule) == rule.collection = Head(keys)
         IN  ConflictsOfCollections(rules, Tail(keys),
                ConflictsFrom(SelectSeq(rules, InCollection), 1, 2, acc))

\* The conflict records in the order they are pushed; threw: a TypeError
\* left the function and no list was returned
detectConflicts(rules) ==
    ConflictsOfCollections(rules, CollectionKeys(rules, <<>>),
                           [threw |-> FALSE, conflicts |-> <<>>])

\* ---------------------------------------------------------------------
\* detectConflicts applied to a list of rules

MaxConflictRules == 3

OtherHash == <<"c", "d">>
AnyPublisher == PublisherCond(<<"*">>, Null, Null, "*", "any", "")
Users == "S-1-5-32-545"

ConflictConditionLists ==
    { <<PathCond(DirPattern)>>,
      <<PathCond(OtherFile), PathCond(FilePattern)>>,
      <<FormPublisher, FormHash>>,
      <<HashCond(OtherHash, "SHA256", "a.exe", Absent), AnyPublisher>>,
      <<>> }

ConflictRule(n, collection, action, sid, conditions) ==
    [id |-> ToString(n), name |-> ToString(n), description |-> "",
     collection |-> collection, action |-> action, user_or_group_sid |-> sid,
     conditions |-> conditions, exceptions |-> <<>>,
     created_at |-> n, updated_at |-> n]

ConflictInit ==
    /\ pc = "args"
    /\ \E sid \in {"", Everyone, Administrators, Users},
          conditions \in ConflictConditionLists :
          conflictRules = <<ConflictRule(1, "Exe", "Allow", sid, conditions)>>
    /\ conflicts = [threw |-> FALSE, conflicts |-> <<>>]
    /\ PathIdle
    /\ EvalIdle
    /\ XmlIdle
    /\ StoreIdle
    /\ DupIdle
    /\ PubIdle

AddConflictRule ==
    /\ pc = "args"
    /\ Len(conflictRules) < MaxConflictRules
    /\ \E collection \in {"Exe", "Script"}, action \in {"Allow", "Deny"},
          sid \in {"", Everyone, Administrators, Users},
          conditions \in ConflictConditionLists :
          conflictRules' =
             Append(conflictRules,
                    ConflictRule(Len(conflictRules) + 1, collection, action, sid,
                                 conditions))
    /\ UNCHANGED <<pc, conflicts, pathVars, evalVars, xmlVars, storeVars, dupVars, pubVars>>

CallDetectConflicts ==
    /\ pc = "args"
    /\ pc' = "done"
    /\ conflicts' = detectConflicts(conflictRules)
    /\ UNCHANGED <<conflictRules, pathVars, evalVars, xmlVars, storeVars, dupVars, pubVars>>

ConflictNext == AddConflictRule \/ CallDetectConflicts

SpecConflict == ConflictInit /\ [][ConflictNext]_vars

\* One is the Everyone principal, or unset
EveryoneOrUnset(sid) == sid \in {Absent, Null, "", Everyone}

\* Two conditions of the same kind that overlap
SameKindOverlap(c1, c2) ==
    \/ /\ c1.type = "FilePathCondition"
       /\ c2.type = "FilePathCondition"
       /\ pathsOverlap(c1.path, c2.path)
    \/ /\ c1.type = "FilePublisherCondition"
       /\ c2.type = "FilePublisherCondition"
       /\ <<"*">> \in {c1.publisher_name, c2.publisher_name}
            \/ c1.publisher_name = c2.publisher_name
    \/ /\ c1.type = "FileHashCondition"
       /\ c2.type = "FileHashCondition"
       /\ c1.file_hash = c2.file_hash

Conflicting(r1, r2) ==
    /\ r1.collection = r2.collection
    /\ r1.action # r2.action
    /\ \/ r1.user_or_group_sid = r2.user_or_group_sid
       \/ EveryoneOrUnset(r1.user_or_group_sid)
       \/ EveryoneOrUnset(r2.user_or_group_sid)
    /\ \E i \in 1..Len(r1.conditions), k \in 1..Len(r2.conditions) :
          SameKindOverlap(r1.conditions[i], r2.conditions[k])

\* The records of the result that name the rules at i and j
RecordsOf(i, j) ==
    {n \in 1..Len(conflicts.conflicts) :
        {conflicts.conflicts[n].rule1.id, conflicts.conflicts[n].rule2.id}
          = {conflictRules[i].id, conflictRules[j].id}}

\* C17: detectConflicts returns, and its result holds exactly one record
\* for each pair of rules that conflict (same collection, different
\* actions, principals equal or one of them Everyone or unset, a same-kind
\* condition pair that overlaps), no record for any other pair, and no
\* record that names anything but a pair of the rules.
ConflictRecords ==
    pc = "done"
    => /\ ~conflicts.threw
       /\ \A i, j \in 1..Len(conflictRules) :
             i < j => Cardinality(RecordsOf(i, j))
                        = IF Conflicting(conflictRules[i], conflictRules[j])
                          THEN 1 ELSE 0
       /\ \A n \in 1..Len(conflicts.conflicts) :
             \E i, j \in 1..Len(conflictRules) : i < j /\ n \in RecordsOf(i, j)

\* Three rules of one collection: the first conflicts with the second
\* through the second condition of the second, and with the third not at
\* all, the third being of another principal than the second
ConflictRecordsWitness ==
    /\ pc = "done"
    /\ Len(conflictRules) = 3
    /\ Len(conflicts.conflicts) = 2
    /\ conflictRules[2].conditions = <<PathCond(OtherFile), PathCond(FilePattern)>>
    /\ Cardinality(RecordsOf(1, 2)) = 1
    /\ Cardinality(RecordsOf(1, 3)) = 1
    /\ Cardinality(RecordsOf(2, 3)) = 0
    /\ conflictRules[2].action = conflictRules[3].action
    /\ conflictRules[1].user_or_group_sid = ""

\* ---------------------------------------------------------------------
\* Two surfaces hold the same stored rule, and each has submitted an update
\* of it that localStorage took
TwoUpdates ==
    /\ prev.op = "updateRule"
    /\ last.op = "updateRule"
    /\ prev.id = last.id
    /\ prev.failing = {}
    /\ last.failing = {}
    /\ \E i \in 1..Len(prev.before.rules) : prev.before.rules[i].id = prev.id

\* C18: of two updates of one stored rule made one after the other, both
\* return, neither reporting a conflict; the rule then has the later
\* update's value in every field the later update supplied, the earlier
\* update's value in the fields only the earlier one supplied, and its
\* former value in the others; every other rule is as it was.
LastWriteWins ==
    TwoUpdates
    => LET earlier == UpdateInputs[prev.input]
           later == UpdateInputs[last.input]
       IN  /\ ~prev.threw /\ prev.error = ""
           /\ ~last.threw /\ last.error = ""
           /\ Len(ruleStore) = Len(prev.before.rules)
           /\ \A i \in 1..Len(ruleStore) :
                 LET old == prev.before.rules[i]
                     new == ruleStore[i]
                 IN  IF old.id # last.id THEN new = old
                     ELSE /\ new.id = old.id
                          /\ \A f \in later.fields : new[f] = later.data[f]
                          /\ \A f \in earlier.fields \ later.fields :
                                new[f] = earlier.data[f]
                          /\ \A f \in FormFields \ (earlier.fields \cup later.fields) :
                                new[f] = old[f]

\* Of two stored rules the first was updated twice: its action alone
\* first, then every field by the rule form, which had it with the action
\* it had before
LastWriteWinsWitness ==
    /\ TwoUpdates
    /\ Len(ruleStore) = 2
    /\ last.id = ruleStore[1].id
    /\ UpdateInputs[prev.input].fields = {"action"}
    /\ UpdateInputs[last.input].fields = FormFields
    /\ last.before.rules[1].action = UpdateInputs[prev.input].data.action
    /\ ruleStore[1].action = UpdateInputs[last.input].data.action
    /\ ruleStore[1].action # last.before.rules[1].action
    /\ ruleStore[2] = prev.before.rules[2]

\* ---------------------------------------------------------------------
\* A condition or exception that matches the test case; a publisher or hash
\* condition matches no test case that leaves the publisher or hash out
MatchesTest(condition) == conditionMatches(condition, testCase) = True

\* The four conditions under which the rule at i matches the test case
FourHold(i) ==
    LET rule == testRules[i]
    IN  /\ Falsy(testCase.collection) \/ rule.collection = testCase.collection
        /\ \/ Falsy(testCase.userSid)
           \/ rule.user_or_group_sid = testCase.userSid
           \/ rule.user_or_group_sid \in {Absent, Null, "", Everyone}
        /\ \E k \in 1..Len(rule.conditions) : MatchesTest(rule.conditions[k])
        /\ \A k \in 1..Len(rule.exceptions) : ~MatchesTest(rule.exceptions[k])

\* C19: ruleMatches returns true when the test names no collection or the
\* rule's, names no principal or the rule's or the rule's is Everyone or
\* unset, a condition of the rule matches the test and no exception of the
\* rule does; it returns false otherwise.
RuleMatchesIff ==
    pc = "matched"
    => \A i \in 1..Len(testRules) : matches[i] = Bool(FourHold(i))

\* The same, for the calls of ruleMatches that return
RuleMatchesIffWhereReturned ==
    pc = "matched"
    => \A i \in 1..Len(testRules) :
          matches[i] # TypeError => matches[i] = Bool(FourHold(i))

\* ---------------------------------------------------------------------
\* The rules that match and stand behind no matching Deny rule
Recorded ==
    {i \in 1..Len(testRules) :
        /\ Matches(i)
        /\ \A j \in 1..(i - 1) : ~(Matches(j) /\ testRules[j].action = "Deny")}

\* C20: testPolicy returns, and matchingRules is the matching rules of the
\* test's collection, in the order of the list, up to and including the
\* first matching Deny rule: all of them when no Deny rule matches.
ShortCircuitOrder ==
    pc = "done"
    => /\ Returned
       /\ Len(results.matchingRules) = Cardinality(Recorded)
       /\ \E f \in [1..Len(results.matchingRules) -> Recorded] :
             /\ Increasing(f, Len(results.matchingRules))
             /\ \A k \in 1..Len(results.matchingRules) :
                   /\ results.matchingRules[k].id = testRules[f[k]].id
                   /\ results.matchingRules[k].action = testRules[f[k]].action

\* The same, for the calls of testPolicy that return
ShortCircuitOrderWhereReturned ==
    Returned
    => /\ Len(results.matchingRules) = Cardinality(Recorded)
       /\ \E f \in [1..Len(results.matchingRules) -> Recorded] :
             /\ Increasing(f, Len(results.matchingRules))
             /\ \A k \in 1..Len(results.matchingRules) :
                   /\ results.matchingRules[k].id = testRules[f[k]].id
                   /\ results.matchingRules[k].action = testRules[f[k]].action

\* ---------------------------------------------------------------------
\* publisherConditionMatches applied to a condition and a test publisher

MaxPublisherLen == 2

PublisherNames == SeqsUpTo({"M", "S", "*"}, MaxPublisherLen)

PubInit ==
    /\ pc = "args"
    /\ \E name \in PublisherNames \cup {NullSeq, AbsentSeq} :
          pubCondition = PublisherCond(name, Null, Null, "*", "any", "")
    /\ pubTest = AbsentSeq
    /\ pubMatch = False
    /\ PathIdle
    /\ EvalIdle
    /\ XmlIdle
    /\ StoreIdle
    /\ DupIdle
    /\ ConflictIdle

ChooseTestPublisher ==
    /\ pc = "args"
    /\ pubTest' \in PublisherNames \cup {AbsentSeq}
    /\ pc' = "chosen"
    /\ UNCHANGED <<pubCondition, pubMatch, pathVars, evalVars, xmlVars, storeVars,
                   dupVars, conflictVars>>

CallPublisherConditionMatches ==
    /\ pc = "chosen"
    /\ pubMatch' = publisherConditionMatches(pubCondition, pubTest)
    /\ pc' = "done"
    /\ UNCHANGED <<pubCondition, pubTest, pathVars, evalVars, xmlVars, storeVars,
                   dupVars, conflictVars>>

PubNext == ChooseTestPublisher \/ CallPublisherConditionMatches

SpecPub == PubInit /\ [][PubNext]_vars

\* Some part of `whole` is `part`
Contains(whole, part) ==
    \E i \in 0..(Len(whole) - Len(part)) : SubSeq(whole, i + 1, i + Len(part)) = part

\* C21: a publisher condition matches a test publisher exactly when the
\* two strings are equal, or one of them is the wildcard *, or the test
\* publisher contains the condition's publisher name.
PublisherMatch ==
    (/\ pc = "done"
     /\ pubCondition.publisher_name \in PublisherNames
     /\ pubTest \in PublisherNames)
    => pubMatch = Bool(\/ pubCondition.publisher_name = pubTest
                       \/ pubCondition.publisher_name = <<"*">>
                       \/ pubTest = <<"*">>
                       \/ Contains(pubTest, pubCondition.publisher_name))

\* The same without the wildcard on the test's side, for the conditions that
\* have a publisher name
PublisherMatchConditionWildcard ==
    (/\ pc = "done"
     /\ pubCondition.publisher_name \in PublisherNames \ {<<>>}
     /\ pubTest \in PublisherNames)
    => pubMatch = Bool(\/ pubCondition.publisher_name = pubTest
                       \/ pubCondition.publisher_name = <<"*">>
                       \/ Contains(pubTest, pubCondition.publisher_name))

\* ---------------------------------------------------------------------
\* The BinaryVersionRange children a publisher condition is to be given
ExpectedVersionRange(condition) ==
    CASE condition.version_range_type = "and_above" ->
            <<[LowSection |-> condition.version_value, HighSection |-> "*"]>>
      [] condition.version_range_type = "and_below" ->
            <<[LowSection |-> "*", HighSection |-> condition.version_value]>>
      [] condition.version_range_type = "exactly" ->
            <<[LowSection |-> condition.version_value,
               HighSection |-> condition.version_value]>>
      [] OTHER -> <<>>

\* The publisher conditions (exceptions) of the rule set have the version
\* range they are to have; withAny: those of the range `any` as well
ConditionRangesAsExpected(withAny) ==
    LET rules == ByCollection(xmlRules, 1)
        elems == RuleElements(xmlDoc.collections, 1)
    IN  \A i \in 1..Len(rules) : \A k \in 1..Len(rules[i].conditions) :
           (/\ rules[i].conditions[k].type = "FilePublisherCondition"
            /\ elems[i].tag # "FileHashRule"
            /\ withAny \/ rules[i].conditions[k].version_range_type # "any")
           => elems[i].Conditions[k].BinaryVersionRange
                = ExpectedVersionRange(rules[i].conditions[k])

ExceptionRangesAsExpected ==
    LET rules == ByCollection(xmlRules, 1)
        elems == RuleElements(xmlDoc.collections, 1)
    IN  \A i \in 1..Len(rules) : \A k \in 1..Len(rules[i].exceptions) :
           rules[i].exceptions[k].type = "FilePublisherCondition"
           => elems[i].Exceptions[k].BinaryVersionRange
                = ExpectedVersionRange(rules[i].exceptions[k])

\* C22: a generated publisher condition has a BinaryVersionRange of
\* [value, *] for and_above, [*, value] for and_below, [value, value] for
\* exactly and none for any, in Conditions and in Exceptions alike.
VersionRangeEncoding ==
    pc \in {"generated", "parsed"}
    => ConditionRangesAsExpected(TRUE) /\ ExceptionRangesAsExpected

\* The same, but for the conditions with the range `any` in Conditions
VersionRangeEncodingBounded ==
    pc \in {"generated", "parsed"}
    => ConditionRangesAsExpected(FALSE) /\ ExceptionRangesAsExpected

\* ---------------------------------------------------------------------
\* 0x and the hex digits in uppercase
CanonicalData(file_hash) == <<"0", "x">> \o toUpperCase(stripHexPrefix(file_hash))

HasPrefix(file_hash) ==
    startsWith(file_hash, <<"0", "x">>) \/ startsWith(file_hash, <<"0", "X">>)

\* The Data attributes of the hash conditions of FileHashRule elements and of
\* the hash exceptions are canonical; withPrefixed: those of the stored
\* hashes that carry a prefix as well
DataCanonical(withPrefixed) ==
    LET rules == ByCollection(xmlRules, 1)
        elems == RuleElements(xmlDoc.collections, 1)
        OfInterest(c) ==
            /\ c.type = "FileHashCondition"
            /\ ~FalsySeq(c.file_hash) /\ c.file_hash # <<>>
            /\ withPrefixed \/ ~HasPrefix(c.file_hash)
    IN  \A i \in 1..Len(rules) :
           /\ elems[i].tag = "FileHashRule"
              => \A k \in 1..Len(rules[i].conditions) :
                    OfInterest(rules[i].conditions[k])
                    => elems[i].Conditions[1].FileHash[k].Data
                         = CanonicalData(rules[i].conditions[k].file_hash)
           /\ \A k \in 1..Len(rules[i].exceptions) :
                 OfInterest(rules[i].exceptions[k])
                 => elems[i].Exceptions[k].FileHash[1].Data
                      = CanonicalData(rules[i].exceptions[k].file_hash)

\* C23: the Data attribute generated for a non-empty stored file_hash is 0x
\* followed by its hex digits in uppercase, whether or not the stored hash
\* carries a 0x or 0X prefix, in FileHashRule conditions and in hash
\* exceptions alike.
HashRendering == pc \in {"generated", "parsed"} => DataCanonical(TRUE)

\* The same for the stored hashes that carry no prefix
HashRenderingUnprefixed == pc \in {"generated", "parsed"} => DataCanonical(FALSE)

\* ---------------------------------------------------------------------
\* No two of the rules are duplicates of each other
NoDuplicates(rules) ==
    \A i, k \in 1..Len(rules) : i < k => ~isDuplicateRule(rules[i], rules[k])

\* C24 as stated: no two stored rules are duplicates of each other.
NoDuplicatesInStore == NoDuplicates(ruleStore)

\* C24 amended: a call other than updateRule, made on a store without
\* duplicates, leaves a store without duplicates.
NoDuplicatesButByUpdate ==
    (last.op # "updateRule" /\ NoDuplicates(last.before.rules))
    => NoDuplicates(ruleStore)

\* A rule was created, and then an equivalent of it with another name and
\* another spelling of the principal was refused, beside a second rule
NoDuplicatesWitness ==
    /\ last.op = "createRule"
    /\ ~last.threw
    /\ Len(last.before.rules) = 2
    /\ ruleStore = last.before.rules
    /\ \E i \in 1..2 : /\ ruleStore[i].id = last.ret
                       /\ ruleStore[i].name # CreateInputs[last.input].name
    /\ NoDuplicates(ruleStore)

\* ---------------------------------------------------------------------
\* The rule form's rules, the store exported with exportXML and the exported
\* document imported back, localStorage taking every write

MaxExportOps == 3

RuleFormHash ==
    [RuleA EXCEPT !.name = "h", !.conditions = <<FormHash>>]

RuleUpperHash ==
    [RuleA EXCEPT !.name = "u",
                  !.conditions = <<HashCond(<<"C", "D">>, "SHA256", "a.exe", Absent)>>]

ExportInputs == <<RuleA, RuleB, RuleFormHash, RuleUpperHash>>

exportXML(store) ==
    generatePolicy(store.rules, store.enforcementModes,
                   getPolicyVersion(store.policyVersion))

SubmitFormRule ==
    /\ ops < MaxExportOps
    /\ \E input \in 1..Len(ExportInputs) :
          LET r == createRule(ruleStore, ExportInputs[input], ToString(nextId),
                              ops + 1, TRUE)
          IN  /\ ruleStore' = r.rules
              /\ nextId' = IF r.inserted THEN nextId + 1 ELSE nextId
              /\ Called("createRule", input, "", {}, r.threw, "", r.rule.id)
    /\ UNCHANGED <<pc, modeStore, versionStore, pathVars, evalVars, xmlVars,
                   dupVars, conflictVars, pubVars>>

ExportThenImport ==
    /\ ops < MaxExportOps
    /\ LET r == importXML(Store, exportXML(Store), ops + 1, {})
       IN  /\ ruleStore' = r.store.rules
           /\ modeStore' = r.store.enforcementModes
           /\ versionStore' = r.store.policyVersion
           /\ nextId' = r.store.nextId
           /\ ops' = ops + 1
           /\ prev' = last
           /\ last' = [NoCall EXCEPT
                         !.op = "exportImport", !.threw = r.threw,
                         !.error = r.error,
                         !.validatedRules = r.validatedRules,
                         !.skippedDuplicates = r.skippedDuplicates,
                         !.before = Before]
    /\ UNCHANGED <<pc, pathVars, evalVars, xmlVars, dupVars, conflictVars, pubVars>>

ExportNext == SubmitFormRule \/ ExportThenImport

SpecExport == StoreInit /\ [][ExportNext]_vars

\* The export of a store that holds rules was imported back: no rule was
\* added, and every rule of the document was skipped as a duplicate
NothingAdded ==
    /\ ~last.threw
    /\ ruleStore = last.before.rules
    /\ last.validatedRules = <<>>
    /\ last.skippedDuplicates = Len(last.before.rules)

\* Every condition and exception of the rule is a path condition
PathsOnly(rule) ==
    /\ \A k \in 1..Len(rule.conditions) : rule.conditions[k].type = "FilePathCondition"
    /\ \A k \in 1..Len(rule.exceptions) : rule.exceptions[k].type = "FilePathCondition"

\* C25: importing the export of the store back into the store adds no rule,
\* every exported rule being skipped as a duplicate of its stored original.
ExportImportAddsNothing ==
    (last.op = "exportImport" /\ last.before.rules # <<>>) => NothingAdded

\* The same for the stores that hold rules with path conditions only
ExportImportAddsNothingPathRules ==
    (/\ last.op = "exportImport"
     /\ last.before.rules # <<>>
     /\ \A i \in 1..Len(last.before.rules) : PathsOnly(last.before.rules[i]))
    => NothingAdded

\* ---------------------------------------------------------------------
\* The last call was an importXML that returned its result
ImportReturned == last.op = "importXML" /\ ~last.threw

\* The store holds the rule under the rule's id
HeldUnderItsId(rule) ==
    LET found == getRule(ruleStore, rule.id)
    IN  /\ ~found.null
        /\ found.rule = rule

DistinctIds(rules) ==
    \A i, j \in 1..Len(rules) : rules[i].id = rules[j].id => i = j

\* C26: every rule in the `rules` of a successful importXML is held in the
\* store under the id it is returned with, and the ids of the stored rules
\* are pairwise distinct.
ImportReturnsStoredRules ==
    /\ DistinctIds(ruleStore)
    /\ ImportReturned
       => \A k \in 1..Len(last.validatedRules) :
             HeldUnderItsId(last.validatedRules[k])

\* The ids of the stored rules are pairwise distinct
StoredIdsDistinct == DistinctIds(ruleStore)

\* With every write taken, each returned rule is stored but for its id
ImportReturnsStoredRulesButId ==
    (ImportReturned /\ last.failing = {})
    => \A k \in 1..Len(last.validatedRules) :
          \E i \in 1..Len(ruleStore) :
             [ruleStore[i] EXCEPT !.id = ""]
                = [last.validatedRules[k] EXCEPT !.id = ""]

\* ---------------------------------------------------------------------
\* The rule at i has the bare wildcard among its path conditions
HasBareWildcard(i) ==
    \E k \in 1..Len(testRules[i].conditions) :
       /\ testRules[i].conditions[k].type = "FilePathCondition"
       /\ testRules[i].conditions[k].path = BareWildcard

\* The test's principal is none, the rule's, or the rule is for everyone
PrincipalMatches(i) ==
    \/ Falsy(testCase.userSid)
    \/ testRules[i].user_or_group_sid = testCase.userSid
    \/ testRules[i].user_or_group_sid \in {Absent, Null, "", Everyone}

\* testPolicy reaches the rule at i: no rule before it ends the loop
Reached(i) ==
    \A j \in 1..(i - 1) :
       /\ ruleMatches(testRules[j], testCase) # TypeError
       /\ ~(Matches(j) /\ testRules[j].action = "Deny")

\* C27: a rule of the test's collection with the path condition `*`, a
\* matching principal and no matching exception is in the matchingRules of
\* testPolicy, whatever the non-empty path of the test.
BareWildcardMatchesAll ==
    pc = "done"
    => \A i \in 1..Len(testRules) :
          (/\ HasBareWildcard(i)
           /\ Relevant(i)
           /\ PrincipalMatches(i)
           /\ \A k \in 1..Len(testRules[i].exceptions) :
                 ~MatchesTest(testRules[i].exceptions[k])
           /\ ~FalsySeq(testCase.path)
           /\ Reached(i))
          => \E k \in 1..Len(results.matchingRules) :
                results.matchingRules[k].id = testRules[i].id

\* ---------------------------------------------------------------------
\* The test cases that name a collection and a principal, with a publisher
\* and a hash
ClashTests ==
    { [path |-> p, collection |-> c, userSid |-> u,
       publisher |-> SomePublisher, hash |-> h] :
        p \in {FilePattern, OtherFile}, c \in {"Exe", "Script"},
        u \in {Administrators, Users}, h \in {SomeHash, OtherHash} }

\* An Allow rule and a Deny rule that both match one of the test cases
Clash(r1, r2) ==
    /\ {r1.action, r2.action} = {"Allow", "Deny"}
    /\ \E tc \in ClashTests :
          /\ ruleMatches(r1, tc) = True
          /\ ruleMatches(r2, tc) = True

\* C28: for every Allow rule and Deny rule of the list that both match some
\* test case naming a collection and a principal, the result of
\* detectConflicts holds a record of the two rules.
NoClashMissed ==
    pc = "done"
    => /\ ~conflicts.threw
       /\ \A i, j \in 1..Len(conflictRules) :
             (i < j /\ Clash(conflictRules[i], conflictRules[j]))
             => RecordsOf(i, j) # {}

\* ---------------------------------------------------------------------
\* The collections of the document, and the EnforcementMode the document
\* gives a collection it holds
InDocument(doc, c) ==
    \E k \in 1..Len(doc.collections) : doc.collections[k].Type = c

DocumentMode(doc, c) ==
    LET k == CHOOSE k \in 1..Len(doc.collections) :
                /\ doc.collections[k].Type = c
                /\ \A n \in (k + 1)..Len(doc.collections) :
                      doc.collections[n].Type # c
    IN  AttrOr(doc.collections[k].EnforcementMode, "AuditOnly")

\* C29: after an importXML that returned, the stored mode of every
\* collection of the document is the document's, and the stored mode of
\* every other collection is the one stored before the import.
ImportKeepsOtherModes ==
    ImportReturned
    => \A i \in 1..Len(Collections) :
          LET c == Collections[i]
              doc == ImportDocs[last.input]
          IN  modeStore[c] = IF InDocument(doc, c) THEN DocumentMode(doc, c)
                             ELSE last.before.enforcementModes[c]

\* The stored mode of every collection of the document is the document's
ImportStoresDocumentModes ==
    ImportReturned
    => \A i \in 1..Len(Collections) :
          LET c == Collections[i]
              doc == ImportDocs[last.input]
          IN  InDocument(doc, c) => modeStore[c] = DocumentMode(doc, c)

\* ---------------------------------------------------------------------
\* The test case leaves the publisher or the hash out
OmitsOptional == testCase.publisher = AbsentSeq \/ testCase.hash = AbsentSeq

\* C30: testPolicy on a test case that gives a path and leaves out the
\* publisher or the hash returns a result, and the rules it lists are rules
\* that match without their publisher or hash conditions matching what was
\* left out.
TestPolicyTotal ==
    (pc = "done" /\ OmitsOptional /\ ~FalsySeq(testCase.path))
    => /\ results.error = ""
       /\ \A k \in 1..Len(results.matchingRules) :
             \E i \in 1..Len(testRules) :
                /\ testRules[i].id = results.matchingRules[k].id
                /\ FourHold(i)

\* testPolicy returns for the test cases that give publisher and hash
TestPolicyReturnsWhenAllGiven ==
    (pc = "done" /\ ~OmitsOptional) => results.error = ""

====
